---- MODULE Spec2Model ----
(***************************************************************************)
(* A model of goplus/mod: the gox.mod directive parser (modfile), the      *)
(* dependency version map (modload), the package classifier, the lookup of *)
(* external packages and the classfile registry (xgomod, gopmod), and the  *)
(* edit operations on a File (modfile).                                    *)
(*                                                                         *)
(* Strings of the program are sequences of one-character strings, so that  *)
(* prefixes, quoting and pattern matches are computed and not assumed.     *)
(***************************************************************************)
EXTENDS Integers, Sequences, FiniteSets, TLC

VARIABLES
    data,      \* the manifest handed to Parse/ParseLax: its statements as tokenized
    syntax,    \* f.Syntax.Stmt: the statement tree the File keeps (tokens are rewritten in place)
    strict,    \* parseToFile's strict flag (Parse: TRUE, ParseLax: FALSE)
    idx,       \* parseToFile's position in fs.Stmt (next statement to visit)
    parsed,    \* the File under construction: XGo and Projects
    errs,      \* the ErrorList being accumulated
    pc,        \* where the run is: "idle" | "parse" | "done" (parseToFile); "loaded" | "depmods"
               \* (modload.Module); "xgomod" | "xgomod.lookup" | "gopmod.lookup"; "module" |
               \* "ImportClasses"; "project" | "IsProj"; "edit"; "token" | "parseSymbol" | "parseExt";
               \* "created"; "LoadFromEx" | "loadedEx"
    ret,       \* what parseToFile returned: [file: "nil"|"file", err: "nil"|"errs"]
    gomod,     \* modload.Module: Syntax.Name (empty when Syntax is nil), Require, Replace
    cwd,       \* the process's working directory, which filepath.Abs resolves against
    vers,      \* the map the last DepMods call returned
    modPath,   \* Module.Path() of the module PkgType is called on
    pkgPath,   \* the import path last classified
    pkgType,   \* what PkgType returned for it
    depmods,   \* xgomod.Module.depmods_: module path -> module.Version (a Go map)
    lookPath,  \* the import path handed to lookupExternPkg
    lookPkg,   \* what lookupExternPkg returned: the Package, or the error
    opt,       \* Module.Opt of the module ImportClasses runs on: Projects and ClassMods
    world,     \* the module cache and the fetch collaborator: what each classfile module's directory is
    projs,     \* Module.projs: the registry, extension -> Project
    clsErr,    \* what ImportClasses returned
    trace,     \* the calls made while importing: the callback, modload.Load, modfetch.Get
    classKind, \* the last ClassKind or IsProj call: its arguments and what it returned
    file,      \* the File the edit operations work on: Gop, Import, Syntax
    before,    \* the File as it was when the last edit operation was called
    log,       \* the edit operations called so far: operation, argument, what it returned
    token,     \* the string a token parser is handed by pointer (it is rewritten in place)
    tokOut,    \* the last call of a token parser: its arguments and what it returned
    xmod,      \* a created modload.Module: File.Require (with the comments of each line),
               \* File.Replace, File.Syntax.Name and Opt.ClassMods
    depCache,  \* xgomod.Module.depmods_ of the Module wrapping it: nil, or the map kept
    reqLog,    \* the calls made on the module so far, each with what it returned
    disk,      \* what readFile gives: the go.mod as gomodfile.Parse reads it, and each
               \* secondary manifest file (unreadable, or its contents)
    loadArgs,  \* the gomod and goxmod arguments of LoadFromEx
    loaded     \* what LoadFromEx returned, and the files it read

vars == <<data, syntax, strict, idx, parsed, errs, pc, ret,
          gomod, cwd, vers, modPath, pkgPath, pkgType,
          depmods, lookPath, lookPkg,
          opt, world, projs, clsErr, trace, classKind,
          file, before, log,
          token, tokOut,
          xmod, depCache, reqLog,
          disk, loadArgs, loaded>>

parseVars == <<data, syntax, strict, idx, parsed, errs, pc, ret>>
parseData == <<data, syntax, strict, idx, parsed, errs, ret>>
depVars == <<gomod, cwd, vers>>
pkgVars == <<modPath, pkgPath, pkgType>>
lookVars == <<depmods, lookPath, lookPkg>>
clsVars == <<opt, world, projs, clsErr, trace, classKind>>
editVars == <<file, before, log>>
tokVars == <<token, tokOut>>
reqVars == <<xmod, depCache, reqLog>>
loadVars == <<disk, loadArgs, loaded>>
restVars == <<tokVars, reqVars, loadVars>>
extVars == <<lookVars, clsVars, editVars, restVars>>

-----------------------------------------------------------------------------
(* Characters *)

DQ == "\""
BS == "\\"
SQ == "'"
BQ == "backquote"   \* the backquote character
Digit == {"0", "1", "2", "3", "4", "5", "6", "7", "8", "9"}
Lower == {"a", "b", "c", "d", "e", "f", "g", "h", "i", "j", "k", "l", "m",
          "n", "o", "p", "q", "r", "s", "t", "u", "v", "w", "x", "y", "z"}
Upper == {"A", "B", "C", "D", "E", "F", "G", "H", "I", "J", "K", "L", "M",
          "N", "O", "P", "Q", "R", "S", "T", "U", "V", "W", "X", "Y", "Z"}
WordChar == Digit \cup Lower \cup Upper \cup {"_"}

\* The value v, computed once, handed to F.
With(v, F(_)) == CHOOSE y \in {F(x) : x \in {v}} : TRUE

HasPrefix(s, p) == Len(s) >= Len(p) /\ SubSeq(s, 1, Len(p)) = p
Contains(s, p) == \E i \in 1..(Len(s) - Len(p) + 1) : SubSeq(s, i, i + Len(p) - 1) = p
ContainsAny(s, cs) == \E i \in 1..Len(s) : s[i] \in cs
Tail2(s, n) == SubSeq(s, n + 1, Len(s))   \* s[n:]

-----------------------------------------------------------------------------
(* Quoting: strconv.Unquote, strconv.Quote, modfile.MustQuote, AutoQuote *)

\* The body of a double-quoted Go string literal, over the characters the
\* manifests here use: of the escapes only \\ and \" occur, any other backslash
\* sequence the manifests hold (such as \?) is one strconv.Unquote rejects.
RECURSIVE UnquoteBody(_)
UnquoteBody(s) ==
    IF s = <<>> THEN [ok |-> TRUE, v |-> <<>>]
    ELSE IF s[1] = DQ THEN [ok |-> FALSE, v |-> <<>>]
    ELSE IF s[1] = BS THEN
        IF Len(s) >= 2 /\ s[2] \in {BS, DQ}
        THEN With(UnquoteBody(Tail2(s, 2)), LAMBDA r :
                 [ok |-> r.ok, v |-> IF r.ok THEN <<s[2]>> \o r.v ELSE <<>>])
        ELSE [ok |-> FALSE, v |-> <<>>]
    ELSE With(UnquoteBody(Tail2(s, 1)), LAMBDA r :
             [ok |-> r.ok, v |-> IF r.ok THEN <<s[1]>> \o r.v ELSE <<>>])

Unquote(t) ==
    IF Len(t) >= 2 /\ t[1] = DQ /\ t[Len(t)] = DQ
    THEN UnquoteBody(SubSeq(t, 2, Len(t) - 1))
    ELSE [ok |-> FALSE, v |-> <<>>]

RECURSIVE QuoteBody(_)
QuoteBody(s) ==
    IF s = <<>> THEN <<>>
    ELSE (IF s[1] \in {BS, DQ} THEN <<BS, s[1]>> ELSE <<s[1]>>) \o QuoteBody(Tail2(s, 1))

Quote(s) == <<DQ>> \o QuoteBody(s) \o <<DQ>>

MustQuote(s) ==
    \/ ContainsAny(s, {" ", DQ, SQ, BQ})
    \/ Len(s) > 1 /\ ContainsAny(s, {"(", ")", "[", "]", "{", "}", ","})
    \/ s = <<>>
    \/ Contains(s, <<"/", "/">>)
    \/ Contains(s, <<"/", "*">>)

AutoQuote(s) == IF MustQuote(s) THEN Quote(s) ELSE s

-----------------------------------------------------------------------------
(* Token validation *)

\* parseString storing the bare value in the token, without AutoQuote.
parseStringBare(s) ==
    IF HasPrefix(s, <<DQ>>) THEN
        With(Unquote(s), LAMBDA u :
            IF u.ok THEN [err |-> "", t |-> u.v, s |-> u.v]
            ELSE [err |-> "invalid syntax", t |-> <<>>, s |-> s])
    ELSE IF ContainsAny(s, {DQ, SQ, BQ}) THEN
        [err |-> "unquoted string cannot contain quote", t |-> <<>>, s |-> s]
    ELSE [err |-> "", t |-> s, s |-> s]

\* parseString: the value t, and the token as rewritten in place (the caller's
\* token becomes AutoQuote(t)). On an error the token is left as it was.
parseString(s) ==
    IF HasPrefix(s, <<DQ>>) THEN
        With(Unquote(s), LAMBDA u :
            IF u.ok THEN [err |-> "", t |-> u.v, s |-> AutoQuote(u.v)]
            ELSE [err |-> "invalid syntax", t |-> <<>>, s |-> s])
    ELSE IF ContainsAny(s, {DQ, SQ, BQ}) THEN
        [err |-> "unquoted string cannot contain quote", t |-> <<>>, s |-> s]
    ELSE [err |-> "", t |-> s, s |-> AutoQuote(s)]

AllIn(s, cs) == \A i \in 1..Len(s) : s[i] \in cs

\* modfile.GoVersionRE: major "." minor, an optional "." patch, and an optional
\* pre-release suffix of lower-case letters followed by digits; anchored at both ends.
IsNum(s) == s # <<>> /\ AllIn(s, Digit) /\ (s[1] = "0" => Len(s) = 1)
IsMajor(s) == IsNum(s) /\ s[1] # "0"
IsPreRelease(s) ==
    \E m \in 1..(Len(s) - 1) :
        AllIn(SubSeq(s, 1, m), Lower) /\ AllIn(Tail2(s, m), Digit)
IsMinorPatch(s) ==
    \/ IsNum(s)
    \/ \E d \in 1..Len(s) :
          s[d] = "." /\ IsNum(SubSeq(s, 1, d - 1)) /\ IsNum(Tail2(s, d))
GoVersionRE(s) ==
    \E i \in 1..Len(s) :
        /\ s[i] = "."
        /\ IsMajor(SubSeq(s, 1, i - 1))
        /\ \E k \in 0..(Len(s) - i) :
              LET rest == Tail2(s, i)
              IN  /\ IsMinorPatch(SubSeq(rest, 1, k))
                  /\ (k = Len(rest) \/ IsPreRelease(Tail2(rest, k)))

\* symbolRE: an optional star, an upper-case letter, then word characters. It is
\* not anchored and is used with MatchString: a match anywhere in t counts.
symbolREAt(t, i) ==
    \/ t[i] \in Upper
    \/ t[i] = "*" /\ i < Len(t) /\ t[i + 1] \in Upper
symbolRE(t) == \E i \in 1..Len(t) : symbolREAt(t, i)

parseSymbol(s) ==
    With(parseString(s), LAMBDA r :
        IF r.err # "" THEN [err |-> r.err, kind |-> "symbol", t |-> <<>>, s |-> r.s]
        ELSE IF symbolRE(r.t) THEN [err |-> "", kind |-> "", t |-> r.t, s |-> r.s]
        ELSE [err |-> "invalid Go export symbol format", kind |-> "symbol", t |-> <<>>, s |-> r.s])

tMain == <<"m", "a", "i", "n">>

isExt(s, isProj) ==
    \/ Len(s) > 1 /\ s[1] \in {"*", "_", "."}
    \/ isProj /\ Len(s) > 4 /\ SubSeq(s, 1, 4) = tMain /\ s[5] \in {"_", "."}

getExt(s) ==
    IF Len(s) > 1 /\ s[1] = "*" THEN Tail2(s, 1)
    ELSE IF Len(s) > 4 /\ SubSeq(s, 1, 4) = tMain THEN Tail2(s, 4)
    ELSE s

parseExt(s, isProj) ==
    With(parseString(s), LAMBDA r :
        IF r.err # "" THEN [err |-> r.err, kind |-> "ext", ext |-> <<>>, fullExt |-> <<>>, s |-> r.s]
        ELSE IF isExt(r.t, isProj)
        THEN [err |-> "", kind |-> "", ext |-> getExt(r.t), fullExt |-> r.t, s |-> r.s]
        ELSE [err |-> "invalid ext format", kind |-> "ext", ext |-> <<>>, fullExt |-> <<>>, s |-> r.s])

isPkgPath(s) == s # <<>> /\ s[1] # "." /\ s[1] # "_"

parsePkgPath(s) ==
    With(parseString(s), LAMBDA r :
        IF r.err # "" THEN [err |-> r.err, kind |-> "invalid quoted string", path |-> <<>>, s |-> r.s]
        ELSE IF ~isPkgPath(r.t)
        THEN [err |-> "is not a valid package path", kind |-> "", path |-> r.t, s |-> r.s]
        ELSE [err |-> "", kind |-> "", path |-> r.t, s |-> r.s])

\* parsePkgPaths(args[from:]) on the tokens toks: stops at the first bad path,
\* having rewritten the tokens before it.
RECURSIVE parsePkgPaths(_, _, _)
parsePkgPaths(toks, from, paths) ==
    IF from > Len(toks) THEN [err |-> "", kind |-> "", paths |-> paths, toks |-> toks]
    ELSE With(parsePkgPath(toks[from]), LAMBDA r :
             With([toks EXCEPT ![from] = r.s], LAMBDA toks2 :
                 IF r.err # "" THEN [err |-> r.err, kind |-> r.kind, paths |-> <<>>, toks |-> toks2]
                 ELSE parsePkgPaths(toks2, from + 1, Append(paths, r.path))))

-----------------------------------------------------------------------------
(* The File, and parseVerb *)

tXgo == <<"x", "g", "o">>
tGop == <<"g", "o", "p">>
tProject == <<"p", "r", "o", "j", "e", "c", "t">>
tClass == <<"c", "l", "a", "s", "s">>
tImport == <<"i", "m", "p", "o", "r", "t">>
tRunner == <<"r", "u", "n", "n", "e", "r">>
tEmbed == <<"e", "m", "b", "e", "d">>
tPrefixEq == <<"p", "r", "e", "f", "i", "x", "=">>

NoPos == <<0, 0>>
NilXGo == [nil |-> TRUE, Version |-> <<>>, Syntax |-> NoPos]
NilRunner == [nil |-> TRUE, Path |-> <<>>, Version |-> <<>>, Syntax |-> NoPos]
NewFile == [XGo |-> NilXGo, Projects |-> <<>>]

\* errs.Add of an Error at the line's position; the File and the tokens stay as they are.
Fail(f, es, toks, pos, msg, kind, arg) ==
    [f |-> f,
     errs |-> Append(es, [pos |-> pos, msg |-> msg, kind |-> kind, arg |-> arg]),
     toks |-> toks]

Done(f, es, toks) == [f |-> f, errs |-> es, toks |-> toks]

addProj(f, proj) == [f EXCEPT !.Projects = Append(@, proj)]

\* File.proj: the index of the current project, 0 when there is none.
proj(f) == Len(f.Projects)

\* The version case without its repeated-statement test: a later directive
\* overwrites the version.
parseXGoOverwrite(f, es, pos, toks, off) ==
    IF Len(toks) - off # 1
    THEN Fail(f, es, toks, pos, "xgo directive expects exactly one argument", "", <<>>)
    ELSE IF ~GoVersionRE(toks[off + 1])
    THEN Fail(f, es, toks, pos, "invalid xgo version", "", toks[off + 1])
    ELSE Done([f EXCEPT !.XGo = [nil |-> FALSE, Version |-> toks[off + 1], Syntax |-> pos]],
              es, toks)

parseXGo(f, es, pos, toks, off) ==
    IF ~f.XGo.nil THEN Fail(f, es, toks, pos, "repeated xgo statement", "", <<>>)
    ELSE IF Len(toks) - off # 1
    THEN Fail(f, es, toks, pos, "xgo directive expects exactly one argument", "", <<>>)
    ELSE IF ~GoVersionRE(toks[off + 1])
    THEN Fail(f, es, toks, pos, "invalid xgo version", "", toks[off + 1])
    ELSE Done([f EXCEPT !.XGo = [nil |-> FALSE, Version |-> toks[off + 1], Syntax |-> pos]],
              es, toks)

NewProject(ext, fullExt, class, pkgPaths, pos) ==
    [Ext |-> ext, FullExt |-> fullExt, Class |-> class, Works |-> <<>>,
     PkgPaths |-> pkgPaths, Import |-> <<>>, Runner |-> NilRunner, Syntax |-> pos]

parseProject(f, es, pos, toks, off) ==
    LET usage == "usage: project [*.projExt ProjectClass] classFilePkgPath ..."
    IN
    IF Len(toks) - off < 1 THEN Fail(f, es, toks, pos, usage, "", <<>>)
    ELSE IF isExt(toks[off + 1], TRUE) THEN
        IF Len(toks) - off < 3 \/ Contains(toks[off + 2], <<"/">>)
        THEN Fail(f, es, toks, pos, usage, "", <<>>)
        ELSE
        With(parseExt(toks[off + 1], TRUE), LAMBDA e :
        With([toks EXCEPT ![off + 1] = e.s], LAMBDA toks1 :
            IF e.err # "" THEN Fail(f, es, toks1, pos, e.err, e.kind, toks1[off + 1])
            ELSE
            With(parseSymbol(toks1[off + 2]), LAMBDA c :
            With([toks1 EXCEPT ![off + 2] = c.s], LAMBDA toks2 :
                IF c.err # "" THEN Fail(f, es, toks2, pos, c.err, c.kind, toks2[off + 2])
                ELSE
                With(parsePkgPaths(toks2, off + 3, <<>>), LAMBDA pp :
                    IF pp.err # "" THEN Fail(f, es, pp.toks, pos, pp.err, pp.kind, <<>>)
                    ELSE Done(addProj(f, NewProject(e.ext, e.fullExt, c.t, pp.paths, pos)),
                              es, pp.toks))))))
    ELSE
        With(parsePkgPaths(toks, off + 1, <<>>), LAMBDA pp :
            IF pp.err # "" THEN Fail(f, es, pp.toks, pos, pp.err, pp.kind, <<>>)
            ELSE Done(addProj(f, NewProject(<<>>, <<>>, <<>>, pp.paths, pos)), es, pp.toks))

\* The flag loop of the class case: off moves past each -flag it accepts.
RECURSIVE classFlags(_, _, _, _)
classFlags(toks, off, prefix, embedded) ==
    IF Len(toks) - off > 0 /\ HasPrefix(toks[off + 1], <<"-">>) THEN
        LET sw == Tail2(toks[off + 1], 1)
        IN  IF sw = tEmbed THEN classFlags(toks, off + 1, prefix, TRUE)
            ELSE IF HasPrefix(sw, tPrefixEq)
            THEN classFlags(toks, off + 1, Tail2(sw, 7), embedded)
            ELSE [err |-> "unknown flag", sw |-> sw, off |-> off, prefix |-> prefix,
                  embedded |-> embedded]
    ELSE [err |-> "", sw |-> <<>>, off |-> off, prefix |-> prefix, embedded |-> embedded]

\* The class case recording the work class in the first project of the File.
parseClassFirst(f, es, pos, toks, off0) ==
    IF proj(f) = 0
    THEN Fail(f, es, toks, pos, "work class must declare after a project definition", "", <<>>)
    ELSE
    With(classFlags(toks, off0, <<>>, FALSE), LAMBDA fl :
    IF fl.err # "" THEN Fail(f, es, toks, pos, fl.err, "", fl.sw)
    ELSE IF Len(toks) - fl.off < 2
    THEN Fail(f, es, toks, pos,
              "usage: class [-embed -prefix=Prefix] *.workExt WorkClass [WorkPrototype]", "", <<>>)
    ELSE
    With(parseExt(toks[fl.off + 1], FALSE), LAMBDA e :
    With([toks EXCEPT ![fl.off + 1] = e.s], LAMBDA toks1 :
        IF e.err # "" THEN Fail(f, es, toks1, pos, e.err, e.kind, toks1[fl.off + 1])
        ELSE
        With(parseSymbol(toks1[fl.off + 2]), LAMBDA c :
        With([toks1 EXCEPT ![fl.off + 2] = c.s], LAMBDA toks2 :
            IF c.err # "" THEN Fail(f, es, toks2, pos, c.err, c.kind, toks2[fl.off + 2])
            ELSE
            With(IF Len(toks) - fl.off > 2 THEN parseSymbol(toks2[fl.off + 3])
                 ELSE [err |-> "", kind |-> "", t |-> <<>>, s |-> <<>>], LAMBDA pr :
            With(IF Len(toks) - fl.off > 2 THEN [toks2 EXCEPT ![fl.off + 3] = pr.s]
                 ELSE toks2, LAMBDA toks3 :
                IF pr.err # "" THEN Fail(f, es, toks3, pos, pr.err, pr.kind, toks3[fl.off + 3])
                ELSE Done([f EXCEPT !.Projects[1].Works =
                               Append(@, [Ext |-> e.ext, FullExt |-> e.fullExt, Class |-> c.t,
                                          Proto |-> pr.t, Prefix |-> fl.prefix,
                                          Embedded |-> fl.embedded, Syntax |-> pos])],
                          es, toks3))))))))

parseClass(f, es, pos, toks, off0) ==
    IF proj(f) = 0
    THEN Fail(f, es, toks, pos, "work class must declare after a project definition", "", <<>>)
    ELSE
    With(classFlags(toks, off0, <<>>, FALSE), LAMBDA fl :
    IF fl.err # "" THEN Fail(f, es, toks, pos, fl.err, "", fl.sw)
    ELSE IF Len(toks) - fl.off < 2
    THEN Fail(f, es, toks, pos,
              "usage: class [-embed -prefix=Prefix] *.workExt WorkClass [WorkPrototype]", "", <<>>)
    ELSE
    With(parseExt(toks[fl.off + 1], FALSE), LAMBDA e :
    With([toks EXCEPT ![fl.off + 1] = e.s], LAMBDA toks1 :
        IF e.err # "" THEN Fail(f, es, toks1, pos, e.err, e.kind, toks1[fl.off + 1])
        ELSE
        With(parseSymbol(toks1[fl.off + 2]), LAMBDA c :
        With([toks1 EXCEPT ![fl.off + 2] = c.s], LAMBDA toks2 :
            IF c.err # "" THEN Fail(f, es, toks2, pos, c.err, c.kind, toks2[fl.off + 2])
            ELSE
            With(IF Len(toks) - fl.off > 2 THEN parseSymbol(toks2[fl.off + 3])
                 ELSE [err |-> "", kind |-> "", t |-> <<>>, s |-> <<>>], LAMBDA pr :
            With(IF Len(toks) - fl.off > 2 THEN [toks2 EXCEPT ![fl.off + 3] = pr.s]
                 ELSE toks2, LAMBDA toks3 :
                IF pr.err # "" THEN Fail(f, es, toks3, pos, pr.err, pr.kind, toks3[fl.off + 3])
                ELSE Done([f EXCEPT !.Projects[proj(f)].Works =
                               Append(@, [Ext |-> e.ext, FullExt |-> e.fullExt, Class |-> c.t,
                                          Proto |-> pr.t, Prefix |-> fl.prefix,
                                          Embedded |-> fl.embedded, Syntax |-> pos])],
                          es, toks3))))))))

\* The import case returning without an error when there is no project.
parseImportSilent(f, es, pos, toks, off) ==
    IF proj(f) = 0
    THEN Done(f, es, toks)
    ELSE IF Len(toks) - off \notin {1, 2}
    THEN Fail(f, es, toks, pos, "usage: import [name] pkgPath", "", <<>>)
    ELSE
    LET hasName == Len(toks) - off = 2
        at == IF hasName THEN off + 2 ELSE off + 1
    IN
    With(IF hasName THEN parseString(toks[off + 1])
         ELSE [err |-> "", t |-> <<>>, s |-> <<>>], LAMBDA nm :
    With(IF hasName THEN [toks EXCEPT ![off + 1] = nm.s] ELSE toks, LAMBDA toks1 :
        IF nm.err # "" THEN Fail(f, es, toks1, pos, nm.err, "", <<>>)
        ELSE
        With(parsePkgPath(toks1[at]), LAMBDA pth :
        With([toks1 EXCEPT ![at] = pth.s], LAMBDA toks2 :
            IF pth.err # "" THEN Fail(f, es, toks2, pos, pth.err, pth.kind, <<>>)
            ELSE Done([f EXCEPT !.Projects[proj(f)].Import =
                           Append(@, [Name |-> nm.t, Path |-> pth.path, Syntax |-> pos])],
                      es, toks2)))))

parseImport(f, es, pos, toks, off) ==
    IF proj(f) = 0
    THEN Fail(f, es, toks, pos, "import must declare after a project definition", "", <<>>)
    ELSE IF Len(toks) - off \notin {1, 2}
    THEN Fail(f, es, toks, pos, "usage: import [name] pkgPath", "", <<>>)
    ELSE
    LET hasName == Len(toks) - off = 2
        at == IF hasName THEN off + 2 ELSE off + 1
    IN
    With(IF hasName THEN parseString(toks[off + 1])
         ELSE [err |-> "", t |-> <<>>, s |-> <<>>], LAMBDA nm :
    With(IF hasName THEN [toks EXCEPT ![off + 1] = nm.s] ELSE toks, LAMBDA toks1 :
        IF nm.err # "" THEN Fail(f, es, toks1, pos, nm.err, "", <<>>)
        ELSE
        With(parsePkgPath(toks1[at]), LAMBDA pth :
        With([toks1 EXCEPT ![at] = pth.s], LAMBDA toks2 :
            IF pth.err # "" THEN Fail(f, es, toks2, pos, pth.err, pth.kind, <<>>)
            ELSE Done([f EXCEPT !.Projects[proj(f)].Import =
                           Append(@, [Name |-> nm.t, Path |-> pth.path, Syntax |-> pos])],
                      es, toks2)))))

\* The runner case testing for a runner in any project of the File.
parseRunnerGlobal(f, es, pos, toks, off) ==
    IF proj(f) = 0
    THEN Fail(f, es, toks, pos, "runner must declare after a project definition", "", <<>>)
    ELSE IF \E k \in 1..Len(f.Projects) : ~f.Projects[k].Runner.nil
    THEN Fail(f, es, toks, pos, "repeated runner statement", "", <<>>)
    ELSE IF Len(toks) - off < 1
    THEN Fail(f, es, toks, pos, "usage: runner runnerPkgPath [version]", "", <<>>)
    ELSE
    With(parsePkgPath(toks[off + 1]), LAMBDA pth :
    With([toks EXCEPT ![off + 1] = pth.s], LAMBDA toks1 :
        IF pth.err # "" THEN Fail(f, es, toks1, pos, pth.err, pth.kind, <<>>)
        ELSE
        With(IF Len(toks) - off > 1 THEN parseString(toks1[off + 2])
             ELSE [err |-> "", t |-> <<>>, s |-> <<>>], LAMBDA v :
        With(IF Len(toks) - off > 1 THEN [toks1 EXCEPT ![off + 2] = v.s] ELSE toks1, LAMBDA toks2 :
            IF v.err # "" THEN Fail(f, es, toks2, pos, v.err, "", <<>>)
            ELSE Done([f EXCEPT !.Projects[proj(f)].Runner =
                           [nil |-> FALSE, Path |-> pth.path, Version |-> v.t, Syntax |-> pos]],
                      es, toks2)))))

parseRunner(f, es, pos, toks, off) ==
    IF proj(f) = 0
    THEN Fail(f, es, toks, pos, "runner must declare after a project definition", "", <<>>)
    ELSE IF ~f.Projects[proj(f)].Runner.nil
    THEN Fail(f, es, toks, pos, "repeated runner statement", "", <<>>)
    ELSE IF Len(toks) - off < 1
    THEN Fail(f, es, toks, pos, "usage: runner runnerPkgPath [version]", "", <<>>)
    ELSE
    With(parsePkgPath(toks[off + 1]), LAMBDA pth :
    With([toks EXCEPT ![off + 1] = pth.s], LAMBDA toks1 :
        IF pth.err # "" THEN Fail(f, es, toks1, pos, pth.err, pth.kind, <<>>)
        ELSE
        With(IF Len(toks) - off > 1 THEN parseString(toks1[off + 2])
             ELSE [err |-> "", t |-> <<>>, s |-> <<>>], LAMBDA v :
        With(IF Len(toks) - off > 1 THEN [toks1 EXCEPT ![off + 2] = v.s] ELSE toks1, LAMBDA toks2 :
            IF v.err # "" THEN Fail(f, es, toks2, pos, v.err, "", <<>>)
            ELSE Done([f EXCEPT !.Projects[proj(f)].Runner =
                           [nil |-> FALSE, Path |-> pth.path, Version |-> v.t, Syntax |-> pos]],
                      es, toks2)))))

KnownVerbs == {tXgo, tGop, tProject, tClass, tImport, tRunner}

\* parseVerb reporting an unknown verb in lax mode too.
parseVerbAlwaysStrict(f, es, verb, pos, toks, off, isStrict) ==
    IF verb \in {tXgo, tGop} THEN parseXGo(f, es, pos, toks, off)
    ELSE IF verb = tProject THEN parseProject(f, es, pos, toks, off)
    ELSE IF verb = tClass THEN parseClass(f, es, pos, toks, off)
    ELSE IF verb = tImport THEN parseImport(f, es, pos, toks, off)
    ELSE IF verb = tRunner THEN parseRunner(f, es, pos, toks, off)
    ELSE Fail(f, es, toks, pos, "unknown directive", "", verb)

\* File.parseVerb. toks is line.Token and off the number of tokens before args
\* (1 for a Line, whose first token is the verb; 0 for a line of a LineBlock).
parseVerb(f, es, verb, pos, toks, off, isStrict) ==
    IF verb \in {tXgo, tGop} THEN parseXGo(f, es, pos, toks, off)
    ELSE IF verb = tProject THEN parseProject(f, es, pos, toks, off)
    ELSE IF verb = tClass THEN parseClass(f, es, pos, toks, off)
    ELSE IF verb = tImport THEN parseImport(f, es, pos, toks, off)
    ELSE IF verb = tRunner THEN parseRunner(f, es, pos, toks, off)
    ELSE IF isStrict THEN Fail(f, es, toks, pos, "unknown directive", "", verb)
    ELSE Done(f, es, toks)

\* The lines of a LineBlock from line j on, each handed to parseVerb.
RECURSIVE parseBlock(_, _, _, _, _, _, _)
parseBlock(f, es, verb, i, lines, j, isStrict) ==
    IF j > Len(lines) THEN [f |-> f, errs |-> es, lines |-> lines]
    ELSE With(parseVerb(f, es, verb, <<i, j>>, lines[j], 0, isStrict), LAMBDA r :
             parseBlock(r.f, r.errs, verb, i, [lines EXCEPT ![j] = r.toks], j + 1, isStrict))

\* One iteration of parseToFile's loop over fs.Stmt, on statement x = fs.Stmt[i].
parseStmt(f, es, x, i, isStrict) ==
    IF x.kind = "Line" THEN
        With(parseVerb(f, es, x.Token[1], <<i, 0>>, x.Token, 1, isStrict), LAMBDA r :
            [f |-> r.f, errs |-> r.errs, stmt |-> [x EXCEPT !.Token = r.toks]])
    ELSE IF x.kind = "LineBlock" THEN
        With(parseBlock(f, es, x.Token[1], i, x.Line, 1, isStrict), LAMBDA r :
            [f |-> r.f, errs |-> r.errs, stmt |-> [x EXCEPT !.Line = r.lines]])
    ELSE [f |-> f, errs |-> es, stmt |-> x]

-----------------------------------------------------------------------------
(* The manifests parsed *)

MaxStmts == 4

sLine(toks) == [kind |-> "Line", Token |-> toks, Line |-> <<>>]
sBlock(verb, lines) == [kind |-> "LineBlock", Token |-> <<verb>>, Line |-> lines]
sComment == [kind |-> "CommentBlock", Token |-> <<>>, Line |-> <<>>]

tFoo == <<"f", "o", "o">>
v15 == <<"1", ".", "5">>
v12 == <<"1", ".", "2">>
v1x == <<"1", ".", "x">>
eG == <<".", "g">>
eS == <<".", "s">>
eT == <<"_", "t", ".", "g", "o", "x">>
eStarS == <<"*", ".", "s">>
eMainG == <<"m", "a", "i", "n", ".", "g">>
eQS == <<DQ, ".", "s", DQ>>
sG == <<"G">>
sS == <<"S">>
sP == <<"*", "P">>
sQS == <<DQ, "S", DQ>>
sLow == <<"s">>
pM == <<"m">>
pQM == <<DQ, "m", DQ>>
pAB == <<"a", ".", "b", "/", "c">>
pQSp == <<DQ, "p", " ", "q", DQ>>
nA == <<"n">>
qBad == <<DQ, BS, "?", DQ>>
rV == <<"v", "1">>
fEmbed == <<"-">> \o tEmbed
fPrefixT == <<"-">> \o tPrefixEq \o <<"T">>
fBad == <<"-", "a">>

\* Version directives, well-formed and not, under both verbs.
PoolVersion ==
    { sLine(<<tXgo, v15>>), sLine(<<tGop, v12>>), sLine(<<tXgo, v1x>>),
      sLine(<<tGop, v15, v12>>), sLine(<<tFoo, pQM>>) }

\* Projects and the directives that attach to the current project.
PoolProject ==
    { sLine(<<tProject, eG, sG, pM>>), sLine(<<tProject, pAB>>), sLine(<<tClass, eS, sS>>),
      sLine(<<tImport, pM>>), sLine(<<tRunner, pAB, rV>>),
      sBlock(tRunner, << <<pM>>, <<pAB>> >>) }

\* Tokens in quoted form, some needing their quotes and some not.
PoolQuote ==
    { sLine(<<tProject, eMainG, sQS, pQM, pQSp>>), sLine(<<tImport, nA, pQM>>),
      sLine(<<tClass, fEmbed, fPrefixT, eQS, sS, sP>>), sLine(<<tRunner, pM, pQSp>>),
      sLine(<<tFoo, pQM>>) }

\* Defective statements among sound ones.
PoolDefect ==
    { sLine(<<tProject, pM>>), sLine(<<tProject, eG, sG>>), sLine(<<tClass, fBad, eS, sS>>),
      sLine(<<tImport, qBad>>), sLine(<<tClass, eStarS, sLow>>) }

\* Line blocks, whose lines carry no verb token, and a comment block.
PoolBlock ==
    { sBlock(tProject, << <<eG, sG, pM>>, <<pAB>> >>),
      sBlock(tClass, << <<eS, sS>>, <<eT, sQS>>, <<eS>> >>),
      sBlock(tImport, << <<pM>>, <<nA, pQM>> >>),
      sBlock(tXgo, << <<v15>>, <<v12>> >>),
      sComment }

\* A project directive that fails between a sound one and a class.
PoolPartial ==
    { sLine(<<tProject, eG, sG, pM>>), sLine(<<tProject, eS, sS>>), sLine(<<tClass, eS, sS>>),
      sLine(<<tXgo, v15>>) }

Pools == {PoolVersion, PoolProject, PoolQuote, PoolDefect, PoolBlock, PoolPartial}

SeqsUpTo(S, n) == UNION {[1..k -> S] : k \in 0..n}

Manifests == UNION {SeqsUpTo(P, MaxStmts) : P \in Pools}

-----------------------------------------------------------------------------
(* parseToFile *)

NoMap == [p \in {} |-> <<>>]
NoModule == [Name |-> <<>>, Require |-> <<>>, Replace |-> <<>>]

DepIdle == gomod = NoModule /\ cwd = <<>> /\ vers = NoMap
PkgIdle == modPath = <<>> /\ pkgPath = <<>> /\ pkgType = "none"
\* No Package and no error: lookupExternPkg has not been called.
NoPackage == [err |-> "none", Path |-> <<>>, Real |-> [Path |-> <<>>, Version |-> <<>>],
              ModPath |-> <<>>, ModDir |-> <<>>, Dir |-> <<>>]
LookIdle == depmods = NoMap /\ lookPath = <<>> /\ lookPkg = NoPackage
NoOpt == [Projects |-> <<>>, ClassMods |-> <<>>]
NoKind == [op |-> "none", proj |-> <<>>, ext |-> <<>>, fname |-> <<>>, isProj |-> FALSE, ok |-> FALSE]
ClsIdle ==
    /\ opt = NoOpt /\ world = NoMap /\ projs = NoMap /\ clsErr = "none"
    /\ trace = <<>> /\ classKind = NoKind
\* new(File): no Gop, no Import, no Syntax.
NilGop == [nil |-> TRUE, Version |-> <<>>, Syntax |-> <<0, 0>>]
NilSyntax == [nil |-> TRUE, Stmt |-> <<>>]
EmptyFile == [Gop |-> NilGop, Import |-> <<>>, Syntax |-> NilSyntax]
EditIdle == file = EmptyFile /\ before = EmptyFile /\ log = <<>>
NoOut == [op |-> "none"]
TokIdle == token = <<>> /\ tokOut = NoOut
NilMap == [nil |-> TRUE, m |-> NoMap]
NoCreated == [Name |-> <<>>, Require |-> <<>>, Replace |-> <<>>, ClassMods |-> <<>>]
ReqIdle == xmod = NoCreated /\ depCache = NilMap /\ reqLog = <<>>
LoadIdle == disk = <<>> /\ loadArgs = <<>> /\ loaded = NoOut
RestIdle == TokIdle /\ ReqIdle /\ LoadIdle
ExtIdle == LookIdle /\ ClsIdle /\ EditIdle /\ RestIdle
ParseIdle ==
    /\ data = <<>> /\ syntax = <<>> /\ strict = FALSE /\ idx = 0
    /\ parsed = NewFile /\ errs = <<>> /\ pc = "idle" /\ ret = [file |-> "none", err |-> "none"]

\* Parse (strict) or ParseLax entered with a manifest the tokenizer accepted:
\* parsed = &File{Syntax: f.Syntax}, errs empty, the loop about to start.
InitParse ==
    /\ data \in Manifests
    /\ syntax = data
    /\ strict \in BOOLEAN
    /\ idx = 1
    /\ parsed = NewFile
    /\ errs = <<>>
    /\ pc = "parse"
    /\ ret = [file |-> "none", err |-> "none"]
    /\ DepIdle /\ PkgIdle /\ ExtIdle

\* The loop leaving at the first error.
loopStopsAtError(i, stmts, es) == i <= Len(stmts) /\ es = <<>>

\* The loop's next statement: the loop goes on whatever errs holds.
loopContinues(i, stmts, es) == i <= Len(stmts)

ParseStep ==
    /\ pc = "parse"
    /\ loopContinues(idx, syntax, errs)
    /\ \E r \in {parseStmt(parsed, errs, syntax[idx], idx, strict)} :
          /\ parsed' = r.f
          /\ errs' = r.errs
          /\ syntax' = [syntax EXCEPT ![idx] = r.stmt]
    /\ idx' = idx + 1
    /\ UNCHANGED <<data, strict, pc, ret, depVars, pkgVars, extVars>>

\* After the loop: nil and the aggregate error when errs is not empty, else the File.
\* parseToFile handing the File it built back to the caller beside the error list.
parseResultPartial(es) ==
    [file |-> "file", err |-> IF Len(es) > 0 THEN "errs" ELSE "nil"]

parseResult(es) ==
    IF Len(es) > 0 THEN [file |-> "nil", err |-> "errs"] ELSE [file |-> "file", err |-> "nil"]

ParseReturn ==
    /\ pc = "parse"
    /\ ~loopContinues(idx, syntax, errs)
    /\ ret' = parseResult(errs)
    /\ pc' = "done"
    /\ UNCHANGED <<data, syntax, strict, idx, parsed, errs, depVars, pkgVars, extVars>>

NextParse == ParseStep \/ ParseReturn

SpecParse == InitParse /\ [][NextParse]_vars

-----------------------------------------------------------------------------
(* modload.Module.DepMods *)

\* A path split at its slashes: the segments, empty ones included.
RECURSIVE SplitSlash(_, _)
SplitSlash(s, cur) ==
    IF s = <<>> THEN <<cur>>
    ELSE IF s[1] = "/" THEN <<cur>> \o SplitSlash(Tail2(s, 1), <<>>)
    ELSE SplitSlash(Tail2(s, 1), Append(cur, s[1]))

RECURSIVE JoinSlash(_)
JoinSlash(segs) ==
    IF segs = <<>> THEN <<>>
    ELSE IF Len(segs) = 1 THEN segs[1]
    ELSE segs[1] \o <<"/">> \o JoinSlash(Tail2(segs, 1))

IsAbs(path) == HasPrefix(path, <<"/">>)
DotDot == <<".", ".">>

\* filepath.Clean's pass over the elements of a path: empty and "." elements
\* are dropped, ".." removes the element before it, is dropped at the root,
\* and is kept when a relative path has nothing left to remove.
RECURSIVE cleanSegs(_, _, _)
cleanSegs(segs, out, rooted) ==
    IF segs = <<>> THEN out
    ELSE LET e == segs[1]
             rest == Tail2(segs, 1)
         IN  IF e = <<>> \/ e = <<".">> THEN cleanSegs(rest, out, rooted)
             ELSE IF e = DotDot THEN
                 IF out # <<>> /\ out[Len(out)] # DotDot
                 THEN cleanSegs(rest, SubSeq(out, 1, Len(out) - 1), rooted)
                 ELSE IF rooted THEN cleanSegs(rest, out, rooted)
                 ELSE cleanSegs(rest, Append(out, e), rooted)
             ELSE cleanSegs(rest, Append(out, e), rooted)

Clean(path) ==
    LET out == JoinSlash(cleanSegs(SplitSlash(path, <<>>), <<>>, IsAbs(path)))
    IN  IF IsAbs(path) THEN <<"/">> \o out
        ELSE IF out = <<>> THEN <<".">> ELSE out

\* filepath.Split: the directory part, up to and including the last slash.
RECURSIVE splitDir(_)
splitDir(path) ==
    IF path = <<>> \/ path[Len(path)] = "/" THEN path
    ELSE splitDir(SubSeq(path, 1, Len(path) - 1))

\* filepath.Abs with the working directory wd (os.Getwd succeeding).
Abs(path, wd) == IF IsAbs(path) THEN Clean(path) ELSE Clean(wd \o <<"/">> \o path)

Modfile(m) == m.Name

Put(map, k, v) == [x \in (DOMAIN map) \cup {k} |-> IF x = k THEN v ELSE map[x]]

\* The first loop of DepMods: vers[r.Mod.Path] = r.Mod for each require.
RECURSIVE seedRequire(_, _, _)
seedRequire(req, i, m) ==
    IF i > Len(req) THEN m
    ELSE seedRequire(req, i + 1,
                     IF req[i].Path # <<>> THEN Put(m, req[i].Path, req[i]) ELSE m)

\* A local replacement made relative to the working directory alone.
realTargetNoDir(new, modfile, wd) ==
    IF new.Version = <<>> THEN [Path |-> Abs(new.Path, wd), Version |-> <<>>] ELSE new

\* The target a replace entry puts in the map: r.New, its path made absolute
\* when it has no version.
realTarget(new, modfile, wd) ==
    IF new.Version = <<>>
    THEN LET p1 == IF HasPrefix(new.Path, <<".">>)
                   THEN splitDir(modfile) \o new.Path ELSE new.Path
         IN  [Path |-> Abs(p1, wd), Version |-> <<>>]
    ELSE new

\* The second loop of DepMods: vers[r.Old.Path] = real for each replace.
RECURSIVE applyReplace(_, _, _, _, _)
applyReplace(rep, i, m, modfile, wd) ==
    IF i > Len(rep) THEN m
    ELSE applyReplace(rep, i + 1,
                      IF rep[i].Old.Path # <<>>
                      THEN Put(m, rep[i].Old.Path, realTarget(rep[i].New, modfile, wd))
                      ELSE m,
                      modfile, wd)

\* DepMods with its loops in the other order: the requires written last.
DepModsRequireLast(m, wd) ==
    LET seeded == applyReplace(m.Replace, 1, NoMap, Modfile(m), wd)
        over == seedRequire(m.Require, 1, NoMap)
    IN  [x \in (DOMAIN seeded) \cup (DOMAIN over) |->
            IF x \in DOMAIN over THEN over[x] ELSE seeded[x]]

DepModsOf(m, wd) ==
    applyReplace(m.Replace, 1, seedRequire(m.Require, 1, NoMap), Modfile(m), wd)

MaxRequire == 2
MaxReplace == 2

mA == <<"a">>
mB == <<"b">>
mC == <<"c">>
vOne == <<"v", "1">>
vTwo == <<"v", "2">>
Ver(path, v) == [Path |-> path, Version |-> v]
Repl(old, new) == [Old |-> old, New |-> new]

\* Require entries; the last has the empty path DepMods skips.
RequirePool == {Ver(mA, vOne), Ver(mA, vTwo), Ver(mB, vOne), Ver(<<>>, vOne)}

\* Replace entries: local targets with and without a leading dot, a versioned
\* target, entries for the same old path under different left-hand versions,
\* and an entry with the empty old path.
ReplacePool ==
    { Repl(Ver(mA, vOne), Ver(<<".", ".", "/">>, <<>>)),
      Repl(Ver(mB, <<>>), Ver(mC, vTwo)),
      Repl(Ver(mB, <<>>), Ver(<<".", "/", "x">>, <<>>)),
      Repl(Ver(mB, vOne), Ver(<<"x", "/", ".", ".", "/", "y">>, <<>>)),
      Repl(Ver(mA, vTwo), Ver(<<"/", "y", "/", "/", "z", "/">>, <<>>)),
      Repl(Ver(<<>>, <<>>), Ver(mC, vTwo)) }

\* Syntax.Name: an absolute manifest path, relative ones, and none (Syntax nil).
ModfileNames ==
    { <<"/", "f", "/", "b", "/", "g", "o", ".", "m", "o", "d">>,
      <<"g", "o", ".", "m", "o", "d">>,
      <<".", ".", "/", "g", "o", ".", "m", "o", "d">>,
      <<>> }
WorkDirs == { <<"/", "w", "/", "d">>, <<"/">> }

\* A module as Load or Create and the Add calls leave it, DepMods not yet called.
InitDeps ==
    /\ gomod \in [Name : ModfileNames,
                  Require : SeqsUpTo(RequirePool, MaxRequire),
                  Replace : SeqsUpTo(ReplacePool, MaxReplace)]
    /\ cwd \in WorkDirs
    /\ vers = NoMap
    /\ data = <<>> /\ syntax = <<>> /\ strict = FALSE /\ idx = 0
    /\ parsed = NewFile /\ errs = <<>> /\ ret = [file |-> "none", err |-> "none"]
    /\ pc = "loaded"
    /\ PkgIdle /\ ExtIdle

DepMods ==
    /\ pc = "loaded"
    /\ vers' = DepModsOf(gomod, cwd)
    /\ pc' = "depmods"
    /\ UNCHANGED <<data, syntax, strict, idx, parsed, errs, ret, gomod, cwd, pkgVars, extVars>>

NextDeps == DepMods

SpecDeps == InitDeps /\ [][NextDeps]_vars

-----------------------------------------------------------------------------
(* xgomod.Module.PkgType *)

PkgtStandard == "PkgtStandard"
PkgtModule == "PkgtModule"
PkgtLocal == "PkgtLocal"
PkgtExtern == "PkgtExtern"
PkgtInvalid == "PkgtInvalid"

\* strings.Index(s, "/") as a 1-based position, 0 when there is none.
IndexSlash(s) ==
    IF \E i \in 1..Len(s) : s[i] = "/"
    THEN CHOOSE i \in 1..Len(s) : s[i] = "/" /\ \A j \in 1..(i - 1) : s[j] # "/"
    ELSE 0

isPkgInMod(pkg, mod) ==
    /\ mod # <<>>
    /\ HasPrefix(pkg, mod)
    /\ LET suffix == Tail2(pkg, Len(mod))
       IN  suffix = <<>> \/ suffix[1] = "/"

\* The part of the path PkgType searches for a dot: up to the first slash
\* when that slash is not the first character (Go's pos > 0), the whole path
\* otherwise.
domainOf(pkg) ==
    LET pos == IndexSlash(pkg)
    IN  IF pos > 1 THEN SubSeq(pkg, 1, pos - 1) ELSE pkg

PkgTypeOf(pkg, mod) ==
    IF pkg = <<>> THEN PkgtInvalid
    ELSE IF isPkgInMod(pkg, mod) THEN PkgtModule
    ELSE IF pkg[1] = "." THEN PkgtLocal
    ELSE IF Contains(domainOf(pkg), <<".">>) THEN PkgtExtern
    ELSE PkgtStandard

MaxPathLen == 5

PathChars == {"a", ".", "/"}
StringsUpTo(n) == UNION {[1..k -> PathChars] : k \in 0..n}

\* Module paths: none (the default module), one segment, with a dot, two segments.
ModPaths == { <<>>, <<"a">>, <<"a", ".", "a">>, <<"a", "/", "a">> }

InitPkg ==
    /\ modPath \in ModPaths
    /\ pkgPath = <<>>
    /\ pkgType = "none"
    /\ ParseIdle /\ DepIdle /\ ExtIdle

PkgType ==
    \E p \in StringsUpTo(MaxPathLen) :
        /\ pkgPath' = p
        /\ pkgType' = PkgTypeOf(p, modPath)
        /\ UNCHANGED <<parseVars, depVars, modPath, extVars>>

NextPkg == PkgType

SpecPkg == InitPkg /\ [][NextPkg]_vars

-----------------------------------------------------------------------------
(* Reading the statement tree by line position <<i, j>>: statement i, and line *)
(* j of it when it is a LineBlock (j = 0 for a Line).                         *)

AllPos(stmts) ==
    {<<i, 0>> : i \in {n \in 1..Len(stmts) : stmts[n].kind = "Line"}}
    \cup UNION {{<<i, j>> : j \in 1..Len(stmts[i].Line)} :
                i \in {n \in 1..Len(stmts) : stmts[n].kind = "LineBlock"}}
PosLess(a, b) == a[1] < b[1] \/ (a[1] = b[1] /\ a[2] < b[2])
VerbAt(stmts, p) == stmts[p[1]].Token[1]
ToksAt(stmts, p) == IF p[2] = 0 THEN stmts[p[1]].Token ELSE stmts[p[1]].Line[p[2]]
OffAt(p) == IF p[2] = 0 THEN 1 ELSE 0
NArgs(stmts, p) == Len(ToksAt(stmts, p)) - OffAt(p)
Arg(stmts, p, k) == ToksAt(stmts, p)[OffAt(p) + k]
Visited(p) == p[1] < idx
ErrsAt(p) == {k \in 1..Len(errs) : errs[k].pos = p}
HasErr(p, msg) == \E k \in ErrsAt(p) : errs[k].msg = msg
Accepted == pc = "done" /\ ret.file = "file"
Rejected == pc = "done" /\ ret.file = "nil" /\ ret.err = "errs"

\* The number of leading tokens of a class line that begin with a dash.
RECURSIVE LeadingDashes(_, _)
LeadingDashes(toks, off) ==
    IF Len(toks) > off /\ HasPrefix(toks[off + 1], <<"-">>)
    THEN 1 + LeadingDashes(toks, off + 1) ELSE 0

\* Whether parseVerb reads argument k of the line at p as a string (an ext, a
\* symbol, a package path, an import name, a runner version).
IsStringArg(stmts, p, k) ==
    LET verb == VerbAt(stmts, p)
        nf == LeadingDashes(ToksAt(stmts, p), OffAt(p))
    IN  \/ verb \in {tProject, tImport}
        \/ verb = tRunner /\ k <= 2
        \/ verb = tClass /\ k > nf /\ k <= nf + 3

\* A token in the form AutoQuote gives its value: quoted only when it has to be.
Canon(t) == AutoQuote(IF HasPrefix(t, <<DQ>>) THEN Unquote(t).v ELSE t)

SameShape(a, b) ==
    /\ Len(a) = Len(b)
    /\ \A i \in 1..Len(a) :
          /\ a[i].kind = b[i].kind
          /\ Len(a[i].Token) = Len(b[i].Token)
          /\ Len(a[i].Line) = Len(b[i].Line)
          /\ \A j \in 1..Len(a[i].Line) : Len(a[i].Line[j]) = Len(b[i].Line[j])
          /\ a[i].kind = "LineBlock" => a[i].Token = b[i].Token

-----------------------------------------------------------------------------
(* Project context: C2, C3 *)

LinesOf(verb) == {p \in AllPos(data) : VerbAt(data, p) = verb}
ProjectBefore(p) ==
    \E k \in 1..Len(parsed.Projects) : PosLess(parsed.Projects[k].Syntax, p)
NoProjectMsg(verb) ==
    IF verb = tClass THEN "work class must declare after a project definition"
    ELSE IF verb = tImport THEN "import must declare after a project definition"
    ELSE "runner must declare after a project definition"
Orphan(p) ==
    /\ Visited(p)
    /\ VerbAt(data, p) \in {tClass, tImport, tRunner}
    /\ ~ProjectBefore(p)

\* C2: a class, import or runner line met when no project directive has been
\* parsed successfully before it gets exactly one error, the one of its verb
\* ("work class|import|runner must declare after a project definition"), and
\* the parse returns an error and no File.
C2_NeedsProject ==
    \A p \in AllPos(data) :
        Orphan(p) =>
            /\ Cardinality(ErrsAt(p)) = 1
            /\ HasErr(p, NoProjectMsg(VerbAt(data, p)))
            /\ pc = "done" => Rejected

\* A rejected manifest with such a line, and a project directive after it.
C2_Witness ==
    /\ Rejected
    /\ \E p \in AllPos(data) : Orphan(p) /\ VerbAt(data, p) = tImport
    /\ parsed.Projects # <<>>

\* The number of project lines of the manifest before position p.
NearestProject(p) == Cardinality({q \in LinesOf(tProject) : PosLess(q, p)})
Increasing(recs) ==
    \A a, b \in 1..Len(recs) : a < b => PosLess(recs[a].Syntax, recs[b].Syntax)
TimesIn(recs, p) == Cardinality({n \in 1..Len(recs) : recs[n].Syntax = p})

\* C3: in a returned File the projects are the manifest's project lines in
\* order, and each class, import and runner line is recorded once, in the
\* project of the nearest project line before it and in no other; Works and
\* Import keep the order of the manifest.
C3_NearestProject ==
    Accepted =>
        /\ Len(parsed.Projects) = Cardinality(LinesOf(tProject))
        /\ Increasing(parsed.Projects)
        /\ \A k \in 1..Len(parsed.Projects) :
              LET pr == parsed.Projects[k]
              IN  /\ pr.Syntax \in LinesOf(tProject)
                  /\ Increasing(pr.Works) /\ Increasing(pr.Import)
                  /\ \A w \in 1..Len(pr.Works) : pr.Works[w].Syntax \in LinesOf(tClass)
                  /\ \A w \in 1..Len(pr.Import) : pr.Import[w].Syntax \in LinesOf(tImport)
                  /\ ~pr.Runner.nil => pr.Runner.Syntax \in LinesOf(tRunner)
                  /\ \A p \in LinesOf(tClass) :
                        TimesIn(pr.Works, p) = IF k = NearestProject(p) THEN 1 ELSE 0
                  /\ \A p \in LinesOf(tImport) :
                        TimesIn(pr.Import, p) = IF k = NearestProject(p) THEN 1 ELSE 0
                  /\ \A p \in LinesOf(tRunner) :
                        (~pr.Runner.nil /\ pr.Runner.Syntax = p) <=> k = NearestProject(p)

\* A returned File of two projects, each with a work class of its own.
C3_Witness ==
    /\ Accepted
    /\ Len(parsed.Projects) = 2
    /\ parsed.Projects[1].Works # <<>>
    /\ parsed.Projects[2].Works # <<>>

-----------------------------------------------------------------------------
(* Error accumulation: C4 *)

\* Lines that are defective whatever surrounds them, read off the manifest.
BadArity(p) ==
    LET verb == VerbAt(data, p)
        n == NArgs(data, p)
    IN  \/ verb \in {tXgo, tGop} /\ n # 1
        \/ verb = tProject /\ n = 0
        \/ verb = tImport /\ n \notin {1, 2}
        \/ verb = tRunner /\ n = 0
        \/ verb = tClass /\ n - LeadingDashes(ToksAt(data, p), OffAt(p)) < 2
Defective(p) ==
    LET verb == VerbAt(data, p)
    IN  \/ BadArity(p)
        \/ verb \in {tXgo, tGop} /\ NArgs(data, p) = 1 /\ ~GoVersionRE(Arg(data, p, 1))
        \/ strict /\ verb \notin KnownVerbs
        \/ verb \in {tClass, tImport, tRunner} /\ NearestProject(p) = 0

\* C4: the parse visits every statement; each line has at most one entry in
\* the error list and each defective line exactly one, tagged with the line's
\* position, in the order of the manifest; and a File is returned exactly when
\* the list is empty.
C4_ErrorsAccumulate ==
    pc = "done" =>
        /\ idx = Len(data) + 1
        /\ \A k \in 1..Len(errs) : errs[k].pos \in AllPos(data)
        /\ \A a, b \in 1..Len(errs) : a < b => PosLess(errs[a].pos, errs[b].pos)
        /\ \A p \in AllPos(data) : Defective(p) => Cardinality(ErrsAt(p)) = 1
        /\ IF errs = <<>> THEN Accepted ELSE Rejected

\* Three defective statements, the three reported, with a sound one between.
C4_Witness ==
    /\ Rejected
    /\ Len(errs) = 3
    /\ errs[1].pos[1] < errs[2].pos[1] /\ errs[2].pos[1] < errs[3].pos[1]
    /\ \A k \in 1..3 : Defective(errs[k].pos)
    /\ \E p \in AllPos(data) : ErrsAt(p) = {}

-----------------------------------------------------------------------------
(* The version directive: C5 *)

VersionLines == {p \in AllPos(data) : VerbAt(data, p) \in {tXgo, tGop} /\ Visited(p)}
WellFormedVersion(p) == NArgs(data, p) = 1 /\ GoVersionRE(Arg(data, p, 1))
FirstVersion(p) ==
    /\ p \in VersionLines
    /\ WellFormedVersion(p)
    /\ \A q \in VersionLines : PosLess(q, p) => ~WellFormedVersion(q)

\* C5: the version recorded is that of the first well-formed xgo or gop line;
\* every xgo or gop line after it has the one error "repeated xgo statement";
\* a malformed line before it has the one error of its defect; none of these
\* changes the version, and with no well-formed line there is no version.
C5_OneVersion ==
    /\ parsed.XGo.nil <=> ~\E p \in VersionLines : FirstVersion(p)
    /\ \A p \in VersionLines :
          IF FirstVersion(p)
          THEN /\ parsed.XGo = [nil |-> FALSE, Version |-> Arg(data, p, 1), Syntax |-> p]
               /\ ErrsAt(p) = {}
          ELSE /\ Cardinality(ErrsAt(p)) = 1
               /\ IF \E q \in VersionLines : FirstVersion(q) /\ PosLess(q, p)
                  THEN HasErr(p, "repeated xgo statement")
                  ELSE IF NArgs(data, p) # 1
                  THEN HasErr(p, "xgo directive expects exactly one argument")
                  ELSE HasErr(p, "invalid xgo version")

\* A malformed line, then a gop line that sets the version, then a well-formed
\* xgo line of another version, rejected.
C5_Witness ==
    \E p, q, r \in VersionLines :
        /\ PosLess(r, p) /\ PosLess(p, q)
        /\ ~WellFormedVersion(r)
        /\ FirstVersion(p) /\ VerbAt(data, p) = tGop
        /\ VerbAt(data, q) = tXgo /\ WellFormedVersion(q)
        /\ Arg(data, q, 1) # Arg(data, p, 1)

-----------------------------------------------------------------------------
(* Strict and lax: C6 *)

\* parseToFile's loop run to its end on the statements stmts from the i-th.
RECURSIVE parseAll(_, _, _, _, _)
parseAll(f, es, stmts, i, isStrict) ==
    IF i > Len(stmts) THEN [f |-> f, errs |-> es, stmts |-> stmts]
    ELSE With(parseStmt(f, es, stmts[i], i, isStrict), LAMBDA r :
             parseAll(r.f, r.errs, [stmts EXCEPT ![i] = r.stmt], i + 1, isStrict))

IsUnknownErr(e) == e.msg = "unknown directive"
IsKnownErr(e) == e.msg # "unknown directive"
UnknownLines == {p \in AllPos(data) : VerbAt(data, p) \notin KnownVerbs}

\* The manifest with each statement of an unknown verb replaced by a comment.
Blanked(stmts) ==
    [i \in 1..Len(stmts) |->
        IF stmts[i].kind # "CommentBlock" /\ stmts[i].Token[1] \notin KnownVerbs
        THEN sComment ELSE stmts[i]]

\* C6: a line with an unrecognized verb is left as it is, with no error in lax
\* mode and the one error "unknown directive: <verb>" in strict mode, and the
\* File is the one parsed from the manifest without such statements; the
\* parse of the same manifest in the other mode gives the same File, the same
\* statement tree and the same errors but for those.
C6_StrictOnlyUnknown ==
    pc = "done" =>
        LET o == parseAll(NewFile, <<>>, data, 1, ~strict)
        IN  /\ parsed = o.f
            /\ parsed = parseAll(NewFile, <<>>, Blanked(data), 1, strict).f
            /\ syntax = o.stmts
            /\ SelectSeq(errs, IsKnownErr) = SelectSeq(o.errs, IsKnownErr)
            /\ \A k \in 1..Len(errs) : IsUnknownErr(errs[k]) => errs[k].pos \in UnknownLines
            /\ \A p \in UnknownLines :
                  /\ ToksAt(syntax, p) = ToksAt(data, p)
                  /\ IF strict
                     THEN /\ Cardinality(ErrsAt(p)) = 1
                          /\ \A k \in ErrsAt(p) :
                                IsUnknownErr(errs[k]) /\ errs[k].arg = VerbAt(data, p)
                     ELSE ErrsAt(p) = {}

\* A strict parse whose only error is the unknown verb of one line, the
\* project of the manifest parsed all the same.
C6_Witness ==
    /\ Rejected
    /\ strict
    /\ UnknownLines # {}
    /\ Len(errs) = 1
    /\ parsed.Projects # <<>>

-----------------------------------------------------------------------------
(* One runner per project: C7 *)

RunnerLineOK(p) ==
    /\ NArgs(data, p) >= 1
    /\ parsePkgPath(Arg(data, p, 1)).err = ""
    /\ NArgs(data, p) >= 2 => parseString(Arg(data, p, 2)).err = ""

\* The runner lines visited between project k and the next project.
RunnersUnder(k) ==
    {p \in AllPos(data) :
        /\ Visited(p)
        /\ VerbAt(data, p) = tRunner
        /\ PosLess(parsed.Projects[k].Syntax, p)
        /\ k < Len(parsed.Projects) => PosLess(p, parsed.Projects[k + 1].Syntax)}

\* C7: the Runner of a project is the first well-formed runner line under it;
\* every runner line under the same project after that one has the one error
\* "repeated runner statement" and changes nothing; a runner line under a
\* later project is judged against that project alone.
C7_OneRunner ==
    \A k \in 1..Len(parsed.Projects) :
        LET ok == {p \in RunnersUnder(k) : RunnerLineOK(p)}
        IN  IF ok = {} THEN parsed.Projects[k].Runner.nil
            ELSE LET first == CHOOSE p \in ok : \A q \in ok : ~PosLess(q, p)
                 IN  /\ parsed.Projects[k].Runner =
                            [nil |-> FALSE,
                             Path |-> parsePkgPath(Arg(data, first, 1)).path,
                             Version |-> IF NArgs(data, first) >= 2
                                         THEN parseString(Arg(data, first, 2)).t ELSE <<>>,
                             Syntax |-> first]
                     /\ ErrsAt(first) = {}
                     /\ \A p \in RunnersUnder(k) :
                           PosLess(first, p) =>
                               /\ Cardinality(ErrsAt(p)) = 1
                               /\ HasErr(p, "repeated runner statement")

\* Two projects, each with its runner, and a second runner line under the
\* first project rejected.
C7_Witness ==
    /\ Len(parsed.Projects) = 2
    /\ ~parsed.Projects[1].Runner.nil
    /\ ~parsed.Projects[2].Runner.nil
    /\ \E p \in RunnersUnder(1) : HasErr(p, "repeated runner statement")

-----------------------------------------------------------------------------
(* The dependency version map: C8, C9 *)

Computed == pc = "depmods"
NonEmpty(e) == e # <<>>
Elems(path) == SelectSeq(SplitSlash(path, <<>>), NonEmpty)
Front(q) == IF q = <<>> THEN q ELSE SubSeq(q, 1, Len(q) - 1)

\* Walking the elements of a path from a directory given by its elements:
\* "." stays, ".." goes to the parent (the root is its own parent), a name
\* goes down.
RECURSIVE Walk(_, _)
Walk(at, elems) ==
    IF elems = <<>> THEN at
    ELSE Walk(IF elems[1] = <<".">> THEN at
              ELSE IF elems[1] = DotDot THEN Front(at)
              ELSE Append(at, elems[1]),
              Tail2(elems, 1))
WorkDir == Walk(<<>>, Elems(cwd))
ManifestDir ==
    Walk(IF IsAbs(gomod.Name) THEN <<>> ELSE WorkDir, Front(Elems(gomod.Name)))
Resolved(path, from) ==
    <<"/">> \o JoinSlash(Walk(IF IsAbs(path) THEN <<>> ELSE from, Elems(path)))

\* The replace entry whose target the map holds for its old path: the last
\* entry of the list with that path.
Effective(i) ==
    /\ gomod.Replace[i].Old.Path # <<>>
    /\ \A j \in (i + 1)..Len(gomod.Replace) :
          gomod.Replace[j].Old.Path # gomod.Replace[i].Old.Path
LastRequire(i) ==
    /\ gomod.Require[i].Path # <<>>
    /\ \A j \in (i + 1)..Len(gomod.Require) : gomod.Require[j].Path # gomod.Require[i].Path
ReplacedPaths == {gomod.Replace[i].Old.Path : i \in 1..Len(gomod.Replace)} \ {<<>>}
RequiredPaths == {gomod.Require[i].Path : i \in 1..Len(gomod.Require)} \ {<<>>}

\* The target of a replace entry as the map is to hold it.
ExpectedTarget(new) ==
    IF new.Version # <<>> THEN new
    ELSE [Path |-> Resolved(new.Path,
                            IF HasPrefix(new.Path, <<".">>) THEN ManifestDir ELSE WorkDir),
          Version |-> <<>>]

\* C8: the keys of the map are the non-empty paths of the require and replace
\* entries; a path some replace entry has as its old path maps to the target
\* of the replace entry in force for it (the last one of that path, whatever
\* version it names on its left), and not to what a require entry gives; a
\* path only required maps to its required version.
C8_ReplaceWins ==
    Computed =>
        /\ DOMAIN vers = ReplacedPaths \cup RequiredPaths
        /\ \A i \in 1..Len(gomod.Replace) :
              Effective(i) =>
                  vers[gomod.Replace[i].Old.Path] = ExpectedTarget(gomod.Replace[i].New)
        /\ \A i \in 1..Len(gomod.Require) :
              (LastRequire(i) /\ gomod.Require[i].Path \notin ReplacedPaths) =>
                  vers[gomod.Require[i].Path] = gomod.Require[i]

\* The path b required at v1 and replaced, under no left-hand version, by c
\* at v2, and the path a only required.
C8_Witness ==
    /\ Computed
    /\ gomod.Require = <<Ver(mA, vOne), Ver(mB, vOne)>>
    /\ gomod.Replace = <<Repl(Ver(mB, <<>>), Ver(mC, vTwo))>>
    /\ vers[mB] = Ver(mC, vTwo)
    /\ vers[mA] = Ver(mA, vOne)

\* C9: for the replace entry in force for a path, a target with no version
\* and a path starting with a dot is held as that path resolved from the
\* directory of the manifest, absolute and clean, with the empty version; a
\* target with a version is held exactly as declared.
C9_LocalTargetAbsolute ==
    Computed =>
        \A i \in 1..Len(gomod.Replace) :
            Effective(i) =>
                LET new == gomod.Replace[i].New
                    got == vers[gomod.Replace[i].Old.Path]
                IN  /\ new.Version # <<>> => got = new
                    /\ (new.Version = <<>> /\ HasPrefix(new.Path, <<".">>)) =>
                          got = [Path |-> Resolved(new.Path, ManifestDir), Version |-> <<>>]

\* The manifest /f/b/go.mod with the target ../ giving /f, beside a versioned
\* target kept as declared.
C9_Witness ==
    /\ Computed
    /\ gomod.Name = <<"/", "f", "/", "b", "/", "g", "o", ".", "m", "o", "d">>
    /\ gomod.Replace = <<Repl(Ver(mA, vOne), Ver(<<".", ".", "/">>, <<>>)),
                         Repl(Ver(mB, <<>>), Ver(mC, vTwo))>>
    /\ vers[mA] = Ver(<<"/", "f">>, <<>>)
    /\ vers[mB] = Ver(mC, vTwo)

-----------------------------------------------------------------------------
(* The package classifier: C10 *)

Classified == pkgType # "none"
FirstSegment(p) == SplitSlash(p, <<>>)[1]

\* The classification by the rules in their order, the fourth on the first
\* slash-delimited segment.
RuleType(p, mod) ==
    IF p = <<>> THEN PkgtInvalid
    ELSE IF mod # <<>> /\ (p = mod \/ HasPrefix(p, mod \o <<"/">>)) THEN PkgtModule
    ELSE IF HasPrefix(p, <<".">>) THEN PkgtLocal
    ELSE IF Contains(FirstSegment(p), <<".">>) THEN PkgtExtern
    ELSE PkgtStandard

\* C10: PkgType gives every path the kind the ordered rules give it: Invalid
\* for the empty path; InModule for the module path and the paths under it,
\* none when the module path is empty; Local for a leading dot; Extern when the
\* first slash-delimited segment contains a dot; Standard otherwise.
C10_RuleOrder == Classified => pkgType = RuleType(pkgPath, modPath)

\* C10 on the paths that do not begin with a slash, where PkgType and the rules agree.
C10_Unrooted == (Classified /\ ~IsAbs(pkgPath)) => pkgType = RuleType(pkgPath, modPath)

-----------------------------------------------------------------------------
(* xgomod.Module.lookupExternPkg and gopmod.Module.lookupExternPkg *)

\* The byte of a character, for the string comparison sort.Slice is given.
CharCode(c) ==
    CASE c = "." -> 46
      [] c = "/" -> 47
      [] c = "@" -> 64
      [] c = "a" -> 97
      [] c = "b" -> 98
      [] c = "c" -> 99
      [] c = "v" -> 118
      [] c = "w" -> 119
      [] c = "x" -> 120
      [] c = "y" -> 121
      [] c = "z" -> 122
      [] OTHER -> 127

\* Go's a > b on strings: bytewise, a proper prefix being the smaller.
RECURSIVE StrGreater(_, _)
StrGreater(a, b) ==
    IF a = <<>> THEN FALSE
    ELSE IF b = <<>> THEN TRUE
    ELSE IF a[1] # b[1] THEN CharCode(a[1]) > CharCode(b[1])
    ELSE StrGreater(Tail2(a, 1), Tail2(b, 1))

GOMODCACHE == <<"/", "c">>

\* module.EscapePath on the paths used here: CheckPath wants a dot in the first
\* element; escapeString rewrites upper-case letters only, of which there are none.
EscapePath(path) ==
    IF path # <<>> /\ Contains(SplitSlash(path, <<>>)[1], <<".">>) /\ ~ContainsAny(path, Upper)
    THEN [err |-> "nil", v |-> path]
    ELSE [err |-> "badpath", v |-> <<>>]

\* modcache.Path: a module without a version is a local directory, its own
\* path; a versioned one lives under GOMODCACHE as <escaped path>@<version>.
modcachePath(real) ==
    IF real.Version = <<>> THEN [err |-> "nil", dir |-> real.Path]
    ELSE With(EscapePath(real.Path), LAMBDA e :
             IF e.err # "nil" THEN [err |-> e.err, dir |-> <<>>]
             ELSE [err |-> "nil",
                   dir |-> GOMODCACHE \o <<"/">> \o e.v \o <<"@">> \o real.Version])

\* &MissingError{Path: pkgPath}
MissingError(imp) == [NoPackage EXCEPT !.err = "missing", !.Path = imp]

\* What the body of the loop returns once isPkgInMod(pkgPath, path) holds:
\* the Package of that module, or the error of modcache.Path.
externPkg(imp, path, real) ==
    With(modcachePath(real), LAMBDA d :
        IF d.err = "nil"
        THEN [err |-> "nil", Path |-> <<>>, Real |-> real, ModPath |-> path,
              ModDir |-> d.dir, Dir |-> d.dir \o Tail2(imp, Len(path))]
        ELSE [NoPackage EXCEPT !.err = d.err])

\* xgomod: the loop ranges over the map p.DepMods() and returns at the first
\* key that passes isPkgInMod. The order a Go map is ranged over is not
\* specified, so every passing key is one the loop may meet first.
lookupExternPkgResults(imp, dm) ==
    With({path \in DOMAIN dm : isPkgInMod(imp, path)}, LAMBDA hit :
        IF hit = {} THEN {MissingError(imp)}
        ELSE {externPkg(imp, path, dm[path]) : path \in hit})

\* gopmod's isPkgInMod, which has no test for an empty module path.
gopmodIsPkgInMod(imp, mod) ==
    /\ HasPrefix(imp, mod)
    /\ LET suffix == Tail2(imp, Len(mod))
       IN  suffix = <<>> \/ suffix[1] = "/"

\* gopmod.getDepMods: the keys of the map, sorted by path, greatest first.
RECURSIVE getDepMods(_)
getDepMods(paths) ==
    IF paths = {} THEN <<>>
    ELSE With(CHOOSE p \in paths : \A q \in paths \ {p} : StrGreater(p, q), LAMBDA top :
             <<top>> \o getDepMods(paths \ {top}))

\* gopmod: the loop walks the sorted slice and returns at its first hit.
gopmodLookupExternPkg(imp, dm) ==
    With(getDepMods(DOMAIN dm), LAMBDA sorted :
        With({i \in 1..Len(sorted) : gopmodIsPkgInMod(imp, sorted[i])}, LAMBDA hit :
            IF hit = {} THEN MissingError(imp)
            ELSE With(sorted[CHOOSE i \in hit : \A j \in hit : i <= j], LAMBDA path :
                     externPkg(imp, path, dm[path]))))

MaxDeps == 3

dAB == <<"a", ".", "b">>
DepPaths == { dAB,
              dAB \o <<"/", "x">>,
              dAB \o <<"/", "x", "/", "y">>,
              dAB \o <<"c">> }
ImportPaths == { dAB \o <<"/", "x", "/", "y", "/", "z">>,
                 dAB \o <<"/", "x">>,
                 dAB \o <<"/", "x", "y">>,
                 dAB \o <<"c", "/", "z">>,
                 <<"c", ".", "a", "/", "z">> }
\* What DepMods maps a path to: the required version, or the absolute
\* directory a replace directive points at.
RealsOf(path) == { Ver(path, vOne), Ver(<<"/", "w", "/">> \o path, <<>>) }
DepMaps ==
    UNION {{dm \in [S -> UNION {RealsOf(p) : p \in S}] : \A p \in S : dm[p] \in RealsOf(p)} :
           S \in {T \in SUBSET DepPaths : Cardinality(T) <= MaxDeps}}

\* Nothing of parseToFile is in progress (pc is left to the specification).
ParseQuiet ==
    /\ data = <<>> /\ syntax = <<>> /\ strict = FALSE /\ idx = 0
    /\ parsed = NewFile /\ errs = <<>> /\ ret = [file |-> "none", err |-> "none"]

\* Each dependency's directory is in the module cache, or is not and can be fetched.
InitLookup ==
    /\ depmods \in DepMaps
    /\ lookPath \in ImportPaths
    /\ lookPkg = NoPackage
    /\ pc = "xgomod"
    /\ world \in [DOMAIN depmods -> {"cached", "fetchable"}]
    /\ opt = NoOpt /\ projs = NoMap /\ clsErr = "none" /\ trace = <<>> /\ classKind = NoKind
    /\ ParseQuiet /\ DepIdle /\ PkgIdle /\ EditIdle /\ RestIdle

lookupExternPkg ==
    /\ pc = "xgomod"
    /\ lookPkg' \in lookupExternPkgResults(lookPath, depmods)
    /\ pc' = "xgomod.lookup"
    /\ UNCHANGED <<parseData, depVars, pkgVars, depmods, lookPath, clsVars, editVars, restVars>>

\* The same module and import path, handed to gopmod's Module.
gopmodLookup ==
    /\ pc \in {"xgomod", "xgomod.lookup"}
    /\ lookPkg' = gopmodLookupExternPkg(lookPath, depmods)
    /\ pc' = "gopmod.lookup"
    /\ UNCHANGED <<parseData, depVars, pkgVars, depmods, lookPath, clsVars, editVars, restVars>>

NextLookup == lookupExternPkg \/ gopmodLookup

SpecLookup == InitLookup /\ [][NextLookup]_vars

(* C11 *)

Looked == pc = "xgomod.lookup"
LookedOld == pc = "gopmod.lookup"

\* The dependency module paths that equal the import path or are a prefix of
\* it ending at a slash of it.
Qualifying == {path \in DOMAIN depmods :
                 \/ path = lookPath
                 \/ /\ Len(path) < Len(lookPath)
                    /\ SubSeq(lookPath, 1, Len(path)) = path
                    /\ lookPath[Len(path) + 1] = "/"}
Longest(S) == CHOOSE p \in S : \A q \in S : Len(q) <= Len(p)

\* The Package the longest qualifying module gives: its cache directory
\* followed by what the import path has after the module path.
LongestAnswer ==
    /\ lookPkg.err = "nil"
    /\ lookPkg.ModPath = Longest(Qualifying)
    /\ lookPkg.Real = depmods[Longest(Qualifying)]
    /\ lookPkg.ModDir = modcachePath(lookPkg.Real).dir
    /\ lookPkg.Dir = lookPkg.ModDir \o SubSeq(lookPath, Len(lookPkg.ModPath) + 1, Len(lookPath))
MissingAnswer == lookPkg.err = "missing" /\ lookPkg.Path = lookPath

\* C11: a lookup of an external import path answers with the longest
\* dependency module path that equals the import path or is a prefix of it at
\* a slash, nested module paths included, the directory being that module's
\* cache directory plus the rest of the import path; when no dependency
\* qualifies the answer is a MissingError naming the import path.
C11_LongestPrefix ==
    Looked => IF Qualifying = {} THEN MissingAnswer ELSE LongestAnswer

\* C11 for gopmod's Module, whose getDepMods sorts the paths before the loop.
C11_SortedLongest ==
    LookedOld => IF Qualifying = {} THEN MissingAnswer ELSE LongestAnswer

\* xgomod's loop does answer with a qualifying module, and misses only when
\* there is none.
C11_SomePrefix ==
    Looked => IF Qualifying = {} THEN MissingAnswer
              ELSE lookPkg.err = "nil" /\ lookPkg.ModPath \in Qualifying
                   /\ lookPkg.Dir = modcachePath(depmods[lookPkg.ModPath]).dir
                                  \o SubSeq(lookPath, Len(lookPkg.ModPath) + 1, Len(lookPath))

\* A lookup under nested module paths that answered with the shorter one.
C11_ShorterChosen ==
    Looked /\ Cardinality(Qualifying) >= 2 /\ lookPkg.err = "nil"
           /\ lookPkg.ModPath # Longest(Qualifying)

-----------------------------------------------------------------------------
(* The classfile registry: modfile.ClassExt, Project.IsProj,                 *)
(* xgomod.Module.ImportClasses and Module.ClassKind                          *)

\* strings.LastIndexByte as a 1-based position, 0 when c is not in s.
LastIndexByte(s, c) ==
    IF \E i \in 1..Len(s) : s[i] = c
    THEN CHOOSE i \in 1..Len(s) : s[i] = c /\ \A j \in (i + 1)..Len(s) : s[j] # c
    ELSE 0

\* path.Ext: from the last dot of the last slash-separated element on.
pathExt(fname) ==
    With(LastIndexByte(fname, "."), LAMBDA dot :
        IF dot > 0 /\ dot > LastIndexByte(fname, "/") THEN Tail2(fname, dot - 1) ELSE <<>>)

goxExt == <<".", "g", "o", "x">>

SplitFname(fname) ==
    With(pathExt(fname), LAMBDA classExt :
        With(SubSeq(fname, 1, Len(fname) - Len(classExt)), LAMBDA className :
            With(LastIndexByte(className, "_"), LAMBDA n :
                \* Go's n is this n - 1, so that n > 0 there is n > 1 here
                IF classExt = goxExt /\ n > 1
                THEN [className |-> SubSeq(fname, 1, n - 1), classExt |-> Tail2(fname, n - 1)]
                ELSE [className |-> className, classExt |-> classExt])))

ClassExt(fname) == SplitFname(fname).classExt

\* The fields of a Project and of a Class the registry reads.
Proj(ext, class, works) == [Ext |-> ext, Class |-> class, Works |-> works]
Cls(ext, class) == [Ext |-> ext, Class |-> class]

\* IsProj's loop answering false at any work class of the extension, main or not.
RECURSIVE isProjFromAnyWork(_, _, _, _)
isProjFromAnyWork(p, ext, fname, i) ==
    IF i > Len(p.Works) THEN TRUE
    ELSE IF p.Works[i].Ext = ext THEN FALSE
         ELSE isProjFromAnyWork(p, ext, fname, i + 1)

\* The loop of IsProj over p.Works from work class i on.
RECURSIVE isProjFrom(_, _, _, _)
isProjFrom(p, ext, fname, i) ==
    IF i > Len(p.Works) THEN TRUE
    ELSE IF p.Works[i].Ext = ext
         THEN ~(ext # p.Ext \/ fname # tMain \o ext)
         ELSE isProjFrom(p, ext, fname, i + 1)

\* IsProj answering true for main<ext> of the project's own extension only.
IsProjMainOnly(p, ext, fname) == ext = p.Ext /\ fname = tMain \o ext

IsProjOf(p, ext, fname) == isProjFrom(p, ext, fname, 1)

SpxProject == Proj(<<".", "s", "p", "x">>, "Game", <<Cls(<<".", "s", "p", "x">>, "Sprite")>>)
GshProject == Proj(<<".", "g", "s", "h">>, "App", <<>>)
TestProject == Proj(<<"_", "t", "e", "s", "t", ".", "g", "o", "x">>, "App", <<Cls(<<"_", "t", "e", "s", "t", ".", "g", "o", "x">>, "Case")>>)
gmxExt == <<".", "g", "m", "x">>

ErrNotFound == "ErrNotFound"
ErrNotClassFileMod == "ErrNotClassFileMod"

\* What ImportClasses carries along: the registry, the module cache, the calls
\* made so far, the error.
ImportState(reg, w) == [projs |-> reg, world |-> w, trace |-> <<>>, err |-> "nil"]

RECURSIVE bindWorks(_, _, _)
bindWorks(reg, c, i) ==
    IF i > Len(c.Works) THEN reg
    ELSE bindWorks(Put(reg, c.Works[i].Ext, c), c, i + 1)

RECURSIVE bindWorksKeep(_, _, _)
bindWorksKeep(reg, c, i) ==
    IF i > Len(c.Works) THEN reg
    ELSE bindWorksKeep(IF c.Works[i].Ext \in DOMAIN reg THEN reg ELSE Put(reg, c.Works[i].Ext, c),
                       c, i + 1)

\* importClass leaving an extension that is already bound as it is.
importClassKeepFirst(st, c) ==
    [st EXCEPT !.projs = bindWorksKeep(IF c.Ext \in DOMAIN st.projs THEN st.projs
                                       ELSE Put(st.projs, c.Ext, c), c, 1),
               !.trace = Append(st.trace, [call |-> "importClass", arg |-> c])]

\* importClass: c under its own extension, then under each of its work
\* classes' extensions; then the callback.
importClass(st, c) ==
    [st EXCEPT !.projs = bindWorks(Put(st.projs, c.Ext, c), c, 1),
               !.trace = Append(st.trace, [call |-> "importClass", arg |-> c])]

RECURSIVE importClassAll(_, _)
importClassAll(st, cs) ==
    IF cs = <<>> THEN st
    ELSE importClassAll(importClass(st, cs[1]), Tail2(cs, 1))

\* The classfile modules there are, and the Projects the manifest of each declares.
modSpx == <<"s", ".", "x">>
modYap == <<"y", ".", "p">>
modLib == <<"l", ".", "b">>
ClassModPool == {modSpx, modYap, modLib}
SpxV2 == Proj(<<"_", "s", "p", "x", ".", "g", "o", "x">>, "Game", <<Cls(<<"_", "s", "p", "x", ".", "g", "o", "x">>, "Sprite"), Cls(<<".", "s", "p", "x">>, "Sprite")>>)
YapProject == Proj(<<"_", "y", "a", "p", ".", "g", "o", "x">>, "AppV2", <<>>)
SpxV3 == Proj(<<".", "s", "p", "x">>, "Main", <<>>)
ProjectsOf(m) ==
    CASE m = modSpx -> <<SpxV2>>
      [] m = modYap -> <<YapProject, SpxV3>>
      [] OTHER -> <<>>
\* The classfile modules the manifest of each declares in its turn
\* (mod.Opt.ClassMods of the Module that modload.Load returns for it).
ClassModsOf(m) ==
    CASE m = modYap -> <<modSpx>>
      [] m = modSpx -> <<modLib>>
      [] OTHER -> <<>>

\* modload.Load of the cache directory of modVer, as the trace records it: the
\* not-found error when the cache has no such directory, another error when
\* the go.mod there does not parse.
modloadLoad(w, modVer) ==
    [call |-> "Load", arg |-> modVer.Path, mod |-> modVer,
     err |-> IF w[modVer.Path] = "bad" THEN "ErrLoad"
             ELSE IF w[modVer.Path] # "cached" THEN ErrNotFound
             ELSE "nil"]

\* importClassFrom passing over a manifest without Projects.
importClassFromSkipEmpty(st, modVer) ==
    With(modcachePath(modVer), LAMBDA d :
        IF d.err # "nil" THEN [st EXCEPT !.err = d.err]
        ELSE With([st EXCEPT !.trace = Append(st.trace, modloadLoad(st.world, modVer))],
                  LAMBDA s1 :
            IF s1.world[modVer.Path] = "bad" THEN [s1 EXCEPT !.err = "ErrLoad"]
            ELSE IF s1.world[modVer.Path] # "cached" THEN [s1 EXCEPT !.err = ErrNotFound]
            ELSE importClassAll(s1, ProjectsOf(modVer.Path))))

\* The manifests of the modules mods loaded and their Projects imported.
RECURSIVE importNested(_, _)
importNested(st, mods) ==
    IF mods = <<>> THEN st
    ELSE importNested(
             importClassAll([st EXCEPT !.trace = Append(st.trace,
                                 modloadLoad(st.world, Ver(mods[1], vOne)))],
                            ProjectsOf(mods[1])),
             Tail2(mods, 1))

\* importClassFrom going on to the classfile modules the loaded manifest declares.
importClassFromDeep(st, modVer) ==
    With(modcachePath(modVer), LAMBDA d :
        IF d.err # "nil" THEN [st EXCEPT !.err = d.err]
        ELSE With([st EXCEPT !.trace = Append(st.trace, modloadLoad(st.world, modVer))],
                  LAMBDA s1 :
            IF s1.world[modVer.Path] = "bad" THEN [s1 EXCEPT !.err = "ErrLoad"]
            ELSE IF s1.world[modVer.Path] # "cached" THEN [s1 EXCEPT !.err = ErrNotFound]
            ELSE IF Len(ProjectsOf(modVer.Path)) = 0 THEN [s1 EXCEPT !.err = ErrNotClassFileMod]
            ELSE importNested(importClassAll(s1, ProjectsOf(modVer.Path)),
                              ClassModsOf(modVer.Path))))

\* importClassFrom: the cache directory, modload.Load of it, the Projects of
\* the manifest loaded. A directory the cache does not have makes Load fail
\* with the not-found error; one whose go.mod does not parse, with another.
importClassFrom(st, modVer) ==
    With(modcachePath(modVer), LAMBDA d :
        IF d.err # "nil" THEN [st EXCEPT !.err = d.err]
        ELSE With([st EXCEPT !.trace = Append(st.trace, modloadLoad(st.world, modVer))],
                  LAMBDA s1 :
            IF s1.world[modVer.Path] = "bad" THEN [s1 EXCEPT !.err = "ErrLoad"]
            ELSE IF s1.world[modVer.Path] # "cached" THEN [s1 EXCEPT !.err = ErrNotFound]
            ELSE IF Len(ProjectsOf(modVer.Path)) = 0 THEN [s1 EXCEPT !.err = ErrNotClassFileMod]
            ELSE importClassAll(s1, ProjectsOf(modVer.Path))))

\* The version modfetch.Get returns for mod.String(): the one asked for, or
\* the latest one when the path comes without a version.
vLatest == vTwo
getFromCache(modVer) ==
    IF modVer.Version = <<>> THEN Ver(modVer.Path, vLatest) ELSE modVer

\* What a download leaves of the module in the cache.
Fetched(w) ==
    CASE w = "fetchable" -> "cached"
      [] w = "fetchable-bad" -> "bad"
      [] OTHER -> w

\* modfetch.Get: the module downloaded into the cache, or an error. A download
\* may be reported as done and leave a directory whose go.mod does not parse,
\* or none.
modfetchGet(st, modVer) ==
    IF st.world[modVer.Path] \in {"fetchable", "fetchable-bad", "fetchable-missing"}
    THEN [st EXCEPT !.world = Put(st.world, modVer.Path, Fetched(st.world[modVer.Path])),
                    !.err = "nil",
                    !.trace = Append(st.trace, [call |-> "Get", arg |-> modVer.Path, mod |-> modVer,
                                                err |-> "nil", got |-> getFromCache(modVer)])]
    ELSE [st EXCEPT !.err = "ErrFetch",
                    !.trace = Append(st.trace, [call |-> "Get", arg |-> modVer.Path, mod |-> modVer,
                                                err |-> "ErrFetch", got |-> Ver(<<>>, <<>>)])]

\* importMod sending a module the version map does not have to the fetch collaborator.
importModFetchUnknown(st, modulePath, dm) ==
    With(IF modulePath \in DOMAIN dm THEN dm[modulePath] ELSE Ver(modulePath, <<>>), LAMBDA mv :
        With(IF modulePath \in DOMAIN dm THEN importClassFrom(st, mv)
             ELSE [st EXCEPT !.err = ErrNotFound], LAMBDA r :
            IF r.err # ErrNotFound THEN r
            ELSE With(modfetchGet(r, mv), LAMBDA g :
                     IF g.err # "nil" THEN g
                     ELSE importClassFrom(g, getFromCache(mv)))))

\* importMod sending the module to the fetch collaborator whatever made the
\* first load fail.
importModFetchAny(st, modulePath, dm) ==
    IF modulePath \notin DOMAIN dm THEN [st EXCEPT !.err = ErrNotFound]
    ELSE With(importClassFrom(st, dm[modulePath]), LAMBDA r :
             IF r.err = "nil" THEN r
             ELSE With(modfetchGet(r, dm[modulePath]), LAMBDA g :
                      IF g.err # "nil" THEN g
                      ELSE importClassFrom(g, getFromCache(dm[modulePath]))))

importMod(st, modulePath, dm) ==
    IF modulePath \notin DOMAIN dm THEN [st EXCEPT !.err = ErrNotFound]
    ELSE With(importClassFrom(st, dm[modulePath]), LAMBDA r :
             IF r.err # ErrNotFound THEN r
             ELSE With(modfetchGet(r, dm[modulePath]), LAMBDA g :
                      IF g.err # "nil" THEN g
                      ELSE importClassFrom(g, getFromCache(dm[modulePath]))))

\* The loop over opt.ClassMods, left at the first error.
RECURSIVE importMods(_, _, _)
importMods(st, mods, dm) ==
    IF mods = <<>> THEN st
    ELSE With(importMod(st, mods[1], dm), LAMBDA r :
             IF r.err # "nil" THEN r ELSE importMods(r, Tail2(mods, 1), dm))

ImportClassesOf(o, dm, w) ==
    With(importClassAll(ImportState(NoMap, w), <<TestProject, GshProject, SpxProject>>),
         LAMBDA builtin :
        With([builtin EXCEPT !.projs = Put(builtin.projs, gmxExt, SpxProject)], LAMBDA old :
            importMods(importClassAll(old, o.Projects), o.ClassMods, dm)))

\* ClassKind taking what follows the last dot for the class extension.
ClassKindByPathExt(reg, fname) ==
    With(pathExt(fname), LAMBDA ext :
        IF ext \in DOMAIN reg
        THEN [op |-> "ClassKind", proj |-> reg[ext], ext |-> ext, fname |-> fname,
              isProj |-> IsProjOf(reg[ext], ext, fname), ok |-> TRUE]
        ELSE [op |-> "ClassKind", proj |-> <<>>, ext |-> ext, fname |-> fname,
              isProj |-> FALSE, ok |-> FALSE])

ClassKindOf(reg, fname) ==
    With(ClassExt(fname), LAMBDA ext :
        IF ext \in DOMAIN reg
        THEN [op |-> "ClassKind", proj |-> reg[ext], ext |-> ext, fname |-> fname,
              isProj |-> IsProjOf(reg[ext], ext, fname), ok |-> TRUE]
        ELSE [op |-> "ClassKind", proj |-> <<>>, ext |-> ext, fname |-> fname,
              isProj |-> FALSE, ok |-> FALSE])

MaxProjects == 1
MaxClassMods == 2

\* Projects a module's own manifest may declare.
LocalGame == Proj(gmxExt, "Game", <<Cls(<<".", "s", "p", "x">>, "Sprite")>>)
LocalGsh == Proj(<<".", "g", "s", "h">>, "Shell", <<Cls(<<".", "g", "s", "h">>, "Cmd")>>)
OwnProjects == {LocalGame, LocalGsh}
\* What the cache and the network hold of a classfile module: its directory
\* is in the cache, is not but can be fetched, is not and cannot, or is there
\* with a go.mod that does not parse; or it is not there and a download, though
\* reported as done, leaves a go.mod that does not parse, or no directory.
Worlds == [ClassModPool -> {"cached", "fetchable", "unfetchable", "bad",
                            "fetchable-bad", "fetchable-missing"}]
FileNames == { <<"f", "o", "o", ".", "g", "m", "x">>, <<"m", "a", "i", "n", ".", "g", "m", "x">>, <<"f", "o", "o", ".", "s", "p", "x">>, <<"m", "a", "i", "n", ".", "s", "p", "x">>, <<"f", "o", "o", ".", "g", "s", "h">>, <<"m", "a", "i", "n", ".", "g", "s", "h">>,
               <<"f", "o", "o", "_", "s", "p", "x", ".", "g", "o", "x">>, <<"m", "a", "i", "n", "_", "s", "p", "x", ".", "g", "o", "x">>, <<"f", "o", "o", "_", "y", "a", "p", ".", "g", "o", "x">>, <<"a", "_", "t", "e", "s", "t", ".", "g", "o", "x">>,
               <<"f", "o", "o", ".", "g", "o", "x">>, <<"f", "o", "o">> }

InitClasses ==
    /\ opt \in [Projects : SeqsUpTo(OwnProjects, MaxProjects),
                ClassMods : SeqsUpTo(ClassModPool, MaxClassMods)]
    /\ world \in Worlds
    /\ \E S \in SUBSET ClassModPool :
          depmods \in {[m \in S |-> Ver(m, IF m = modSpx THEN v ELSE vOne)] : v \in {vOne, <<>>}}
    \* what ImportClasses never looks at is left in one state
    /\ \A m \in ClassModPool :
          \/ \E i \in 1..Len(opt.ClassMods) : opt.ClassMods[i] = m /\ (m \in DOMAIN depmods \/ world[m] = "cached")
          \/ m \in DOMAIN depmods /\ world[m] = "cached"
    /\ projs = NoMap
    /\ clsErr = "none"
    /\ trace = <<>>
    /\ classKind = NoKind
    /\ pc = "module"
    /\ lookPath = <<>> /\ lookPkg = NoPackage
    /\ ParseQuiet /\ DepIdle /\ PkgIdle /\ EditIdle /\ RestIdle

ImportClasses ==
    /\ pc = "module"
    /\ \E r \in {ImportClassesOf(opt, depmods, world)} :
        /\ projs' = r.projs
        /\ world' = r.world
        /\ trace' = r.trace
        /\ clsErr' = r.err
    /\ pc' = "ImportClasses"
    /\ UNCHANGED <<parseData, depVars, pkgVars, lookVars, opt, classKind, editVars, restVars>>

\* ClassKind changes nothing it reads, so one call is followed in a run.
ClassKind ==
    /\ pc \in {"module", "ImportClasses"}
    /\ classKind = NoKind
    /\ \E fname \in FileNames : classKind' = ClassKindOf(projs, fname)
    /\ UNCHANGED <<parseVars, depVars, pkgVars, lookVars, opt, world, projs, clsErr, trace, editVars, restVars>>

NextClasses == ImportClasses \/ ClassKind

SpecClasses == InitClasses /\ [][NextClasses]_vars

(* C12 *)

Imported == pc = "ImportClasses"
Succeeded == Imported /\ clsErr = "nil"

RECURSIVE ProjectsOfAll(_)
ProjectsOfAll(mods) ==
    IF mods = <<>> THEN <<>> ELSE ProjectsOf(mods[1]) \o ProjectsOfAll(Tail2(mods, 1))

\* The order of import: the built-in Projects, the Projects of the module's
\* own manifest as declared, the Projects of each classfile module as declared.
ImportOrder == <<TestProject, GshProject, SpxProject>> \o opt.Projects \o ProjectsOfAll(opt.ClassMods)

Binds(c, ext) == c.Ext = ext \/ \E i \in 1..Len(c.Works) : c.Works[i].Ext = ext
Binders(order, ext) == {i \in 1..Len(order) : Binds(order[i], ext)}
LastBinder(order, ext) == order[CHOOSE i \in Binders(order, ext) : \A j \in Binders(order, ext) : j <= i]
BoundExts(order) ==
    UNION {{order[i].Ext} \cup {order[i].Works[j].Ext : j \in 1..Len(order[i].Works)} :
           i \in 1..Len(order)}
CallArgs(name) == SelectSeq(trace, LAMBDA e : e.call = name)

\* C12: after a successful ImportClasses every extension some Project binds is
\* bound in the registry to the Project imported last among those binding it,
\* the order of import being the built-in Projects, then the own manifest's
\* Projects as declared, then each classfile module's Projects as declared (the
\* one other key is .gmx, Spx's old extension, when no Project binds it). A
\* local project .gmx Game with class .spx Sprite has both extensions, and of
\* two classfile modules binding .spx the one declared second has it.
C12_LastImportWins ==
    Succeeded =>
        /\ [i \in 1..Len(CallArgs("importClass")) |-> CallArgs("importClass")[i].arg] = ImportOrder
        /\ BoundExts(ImportOrder) \subseteq DOMAIN projs
        /\ \A ext \in DOMAIN projs :
              IF Binders(ImportOrder, ext) # {}
              THEN projs[ext] = LastBinder(ImportOrder, ext)
              ELSE ext = gmxExt /\ projs[ext] = SpxProject
        /\ (opt.Projects = <<LocalGame>> /\ opt.ClassMods = <<>>) =>
              projs[gmxExt] = LocalGame /\ projs[<<".", "s", "p", "x">>] = LocalGame /\ LocalGame.Class = "Game"
        /\ opt.ClassMods = <<modSpx, modYap>> => projs[<<".", "s", "p", "x">>] = SpxV3

\* A successful import in which a local Project took .gmx from the built-in
\* binding and the second of two classfile modules took .spx from the first.
C12_Witness ==
    /\ Succeeded
    /\ opt.Projects = <<LocalGame>> /\ opt.ClassMods = <<modSpx, modYap>>
    /\ projs[gmxExt] = LocalGame /\ projs[<<".", "s", "p", "x">>] = SpxV3
    /\ projs[<<"_", "s", "p", "x", ".", "g", "o", "x">>] = SpxV2

(* C13 and C14 *)

\* Whether importMod of module m goes through, read off the version map, the
\* cache and the manifest: a dependency whose directory is cached or can be
\* fetched and whose manifest declares a Project.
GoesThrough(m) ==
    m \in DOMAIN depmods /\ world[m] \in {"cached", "fetchable"} /\ ProjectsOf(m) # <<>>
\* The place in opt.ClassMods where the loop stops: the first module that does
\* not go through (0 when all do).
FirstFailing ==
    IF \E i \in 1..Len(opt.ClassMods) : ~GoesThrough(opt.ClassMods[i])
    THEN CHOOSE i \in 1..Len(opt.ClassMods) :
            /\ ~GoesThrough(opt.ClassMods[i])
            /\ \A j \in 1..(i - 1) : GoesThrough(opt.ClassMods[j])
    ELSE 0
ModsBefore(k) == {opt.ClassMods[j] : j \in 1..(k - 1)}
ArgsOf(name) == {CallArgs(name)[i].arg : i \in 1..Len(CallArgs(name))}
\* Nothing was loaded, fetched or registered for the modules from place k on.
HaltedAt(k) ==
    /\ ArgsOf("Load") \subseteq ModsBefore(k)
    /\ ArgsOf("Get") \subseteq ModsBefore(k)
    /\ [i \in 1..Len(CallArgs("importClass")) |-> CallArgs("importClass")[i].arg]
         = <<TestProject, GshProject, SpxProject>> \o opt.Projects
             \o ProjectsOfAll(SubSeq(opt.ClassMods, 1, k - 1))
\* The loop stops at a module the version map does not have.
StopsAtUnknown ==
    Imported /\ FirstFailing > 0 /\ opt.ClassMods[FirstFailing] \notin DOMAIN depmods

\* C13: when ImportClasses comes to a declared classfile module whose path is
\* not a key of the dependency version map, it fails with the not-found error
\* without a call of the fetch collaborator for it, and stops: no module
\* declared after it is loaded, fetched or registered.
C13_UnknownModuleHalts ==
    StopsAtUnknown =>
        /\ clsErr = ErrNotFound
        /\ opt.ClassMods[FirstFailing] \notin ArgsOf("Get")
        /\ opt.ClassMods[FirstFailing] \notin ArgsOf("Load")
        /\ HaltedAt(FirstFailing)

\* The first of two declared modules is unknown to the version map, the second
\* one would have gone through.
C13_Witness ==
    /\ StopsAtUnknown /\ FirstFailing = 1 /\ Len(opt.ClassMods) = 2
    /\ GoesThrough(opt.ClassMods[2])
    /\ clsErr = ErrNotFound

\* The loop stops at a module whose manifest was loaded and declares no Project.
StopsAtEmpty ==
    /\ Imported /\ FirstFailing > 0
    /\ opt.ClassMods[FirstFailing] \in DOMAIN depmods
    /\ world[opt.ClassMods[FirstFailing]] \in {"cached", "fetchable"}
    /\ ProjectsOf(opt.ClassMods[FirstFailing]) = <<>>

\* C14: when the manifest loaded for a declared classfile module declares no
\* Project, ImportClasses fails with ErrNotClassFileMod: the module is not
\* passed over, nothing is registered for it, and no module declared after it
\* is loaded, fetched or registered.
C14_NotClassFileMod ==
    StopsAtEmpty =>
        /\ clsErr = ErrNotClassFileMod
        /\ opt.ClassMods[FirstFailing] \in ArgsOf("Load")
        /\ ArgsOf("Load") \subseteq ModsBefore(FirstFailing + 1)
        /\ ArgsOf("Get") \subseteq ModsBefore(FirstFailing + 1)
        /\ [i \in 1..Len(CallArgs("importClass")) |-> CallArgs("importClass")[i].arg]
             = <<TestProject, GshProject, SpxProject>> \o opt.Projects
                 \o ProjectsOfAll(SubSeq(opt.ClassMods, 1, FirstFailing - 1))

\* A module without Projects declared first, one that would have gone through
\* declared after it.
C14_Witness ==
    /\ StopsAtEmpty /\ FirstFailing = 1 /\ Len(opt.ClassMods) = 2
    /\ GoesThrough(opt.ClassMods[2])
    /\ clsErr = ErrNotClassFileMod

(* C15 *)

Kinded == classKind.op = "ClassKind" /\ classKind.ok
IsWorkExt(p, ext) == \E i \in 1..Len(p.Works) : p.Works[i].Ext = ext
IsMainOf(p, ext, fname) == ext = p.Ext /\ fname = tMain \o ext

\* C15: for a filename whose class extension is bound in the registry,
\* ClassKind reports a project file only if the extension is the bound
\* Project's own Ext and the filename is main followed by the extension; every
\* other file of the extension is reported a work-class file.
C15_MainOnly ==
    Kinded => (classKind.isProj => IsMainOf(classKind.proj, classKind.ext, classKind.fname))

\* C15 as the code has it: the file is reported a work-class file exactly when
\* its extension is that of one of the bound Project's work classes and it is
\* not main<ext> of the Project's own Ext; an extension that is no work class's
\* makes every file of it a project file.
C15_WorkExtMainOnly ==
    Kinded =>
        (classKind.isProj <=>
            \/ ~IsWorkExt(classKind.proj, classKind.ext)
            \/ IsMainOf(classKind.proj, classKind.ext, classKind.fname))

\* ClassKind reported a project file that is not named main: its extension is
\* the Project's own and no work class's.
C15_Witness ==
    /\ Kinded /\ classKind.isProj
    /\ classKind.ext = classKind.proj.Ext
    /\ classKind.fname # tMain \o classKind.ext
    /\ pc = "ImportClasses"

-----------------------------------------------------------------------------
(* Project.IsProj on its own *)

SpxGox == Proj(<<"_", "s", "p", "x", ".", "g", "o", "x">>, "Game", <<Cls(<<"_", "s", "p", "x", ".", "g", "o", "x">>, "Sprite")>>)
ProjectPool == {SpxProject, GshProject, TestProject, LocalGame, LocalGsh, SpxV2, SpxGox, YapProject}
ExtPool == BoundExts(<<SpxProject, GshProject, TestProject, LocalGame, SpxV2, YapProject>>) \cup {goxExt}

InitIsProj ==
    /\ pc = "project"
    /\ ParseQuiet /\ DepIdle /\ PkgIdle /\ LookIdle /\ ClsIdle /\ EditIdle /\ RestIdle

IsProj ==
    /\ pc = "project"
    /\ \E p \in ProjectPool, ext \in ExtPool, fname \in FileNames :
          classKind' = [op |-> "IsProj", proj |-> p, ext |-> ext, fname |-> fname,
                        isProj |-> IsProjOf(p, ext, fname), ok |-> TRUE]
    /\ pc' = "IsProj"
    /\ UNCHANGED <<parseData, depVars, pkgVars, lookVars, opt, world, projs, clsErr, trace, editVars, restVars>>

NextIsProj == IsProj

SpecIsProj == InitIsProj /\ [][NextIsProj]_vars

(* C16 *)

Asked(p, ext, fname) ==
    classKind.op = "IsProj" /\ classKind.proj = p /\ classKind.ext = ext /\ classKind.fname = fname

\* C16: IsProj(ext, fname) is false exactly when ext is the Ext of one of the
\* project's work classes and ext is not the project's own Ext or fname is not
\* main followed by ext; otherwise it is true. With project .gmx and work
\* .spx, foo.gmx is a project file and foo.spx is not; with project and work
\* both _spx.gox, main_spx.gox is one and foo_spx.gox is not; a project
\* without work classes has every file of its extension a project file.
C16_IsProj ==
    /\ classKind.op = "IsProj" =>
          (~classKind.isProj <=>
              /\ IsWorkExt(classKind.proj, classKind.ext)
              /\ (classKind.ext # classKind.proj.Ext
                    \/ classKind.fname # tMain \o classKind.ext))
    /\ Asked(LocalGame, gmxExt, <<"f", "o", "o", ".", "g", "m", "x">>) => classKind.isProj
    /\ Asked(LocalGame, <<".", "s", "p", "x">>, <<"f", "o", "o", ".", "s", "p", "x">>) => ~classKind.isProj
    /\ Asked(SpxGox, <<"_", "s", "p", "x", ".", "g", "o", "x">>, <<"m", "a", "i", "n", "_", "s", "p", "x", ".", "g", "o", "x">>) => classKind.isProj
    /\ Asked(SpxGox, <<"_", "s", "p", "x", ".", "g", "o", "x">>, <<"f", "o", "o", "_", "s", "p", "x", ".", "g", "o", "x">>) => ~classKind.isProj
    /\ (classKind.op = "IsProj" /\ classKind.proj = YapProject) => classKind.isProj

\* The main file of a project whose work class has the project's own extension.
C16_Witness == Asked(SpxGox, <<"_", "s", "p", "x", ".", "g", "o", "x">>, <<"m", "a", "i", "n", "_", "s", "p", "x", ".", "g", "o", "x">>) /\ classKind.isProj

-----------------------------------------------------------------------------
(* Editing a File: directiveWeights, getWeight, updateLine, addLine,        *)
(* AddGopStmt, AddImport, AddNewImport                                      *)

tModule == <<"m", "o", "d", "u", "l", "e">>
tRegister == <<"r", "e", "g", "i", "s", "t", "e", "r">>

directiveInvalid == 0
directiveModule == 1
directiveGop == 2
directiveProject == 3
directiveClass == 4
directiveLineBlock == 128
directiveImport == 129

\* directiveWeights[verb], and whether the map has the verb (a verb it does
\* not have reads as 0).
HasWeight(verb) == verb \in {tModule, tGop, tImport, tRegister, tProject, tClass}
directiveWeights(verb) ==
    CASE verb = tModule -> directiveModule
      [] verb = tGop -> directiveGop
      [] verb = tImport -> directiveImport
      [] verb = tRegister -> directiveImport
      [] verb = tProject -> directiveProject
      [] verb = tClass -> directiveClass
      [] OTHER -> directiveInvalid

getWeight(e) ==
    IF e.kind = "Line" THEN directiveWeights(e.Token[1])
    ELSE IF HasWeight(e.Token[1]) THEN directiveWeights(e.Token[1])
    ELSE directiveLineBlock

\* A Line is known by id, which stands for its address: Gop.Syntax and
\* Import.Syntax point at Lines of the tree.
eLine(id, toks, inBlock) ==
    [kind |-> "Line", id |-> id, Token |-> toks, InBlock |-> inBlock, Line |-> <<>>]
eBlock(verb, lines) ==
    [kind |-> "LineBlock", id |-> <<0, 0>>, Token |-> <<verb>>, InBlock |-> FALSE, Line |-> lines]

\* updateLine on the Line of that id, wherever in the tree it is.
updateTokens(line, tokens) ==
    [line EXCEPT !.Token = IF line.InBlock THEN Tail2(tokens, 1) ELSE tokens]
updateLine(stmts, id, tokens) ==
    [i \in 1..Len(stmts) |->
        IF stmts[i].kind = "Line"
        THEN IF stmts[i].id = id THEN updateTokens(stmts[i], tokens) ELSE stmts[i]
        ELSE [stmts[i] EXCEPT !.Line =
                [j \in 1..Len(stmts[i].Line) |->
                    IF stmts[i].Line[j].id = id
                    THEN updateTokens(stmts[i].Line[j], tokens)
                    ELSE stmts[i].Line[j]]]]

\* The Lines addLine has made so far have ids <<0, 1>>, <<0, 2>>, ...
AllLines(stmts) ==
    {stmts[i] : i \in {n \in 1..Len(stmts) : stmts[n].kind = "Line"}}
    \cup UNION {{stmts[i].Line[j] : j \in 1..Len(stmts[i].Line)} :
                i \in {n \in 1..Len(stmts) : stmts[n].kind = "LineBlock"}}
newId(stmts) == <<0, 1 + Cardinality({l \in AllLines(stmts) : l.id[1] = 0})>>

\* addLine putting the new Line in place of the statement it should go before.
addLineOver(stmts, tokens) ==
    With(eLine(newId(stmts), tokens, FALSE), LAMBDA new :
        With({i \in 1..Len(stmts) : directiveWeights(tokens[1]) <= getWeight(stmts[i])},
             LAMBDA at :
            IF at = {} THEN [stmts |-> Append(stmts, new), id |-> new.id]
            ELSE With(CHOOSE i \in at : \A j \in at : i <= j, LAMBDA i :
                     [stmts |-> [stmts EXCEPT ![i] = new], id |-> new.id])))

\* addLine: the new Line goes before the first statement whose weight is not
\* below its own, at the end when there is none.
addLine(stmts, tokens) ==
    With(eLine(newId(stmts), tokens, FALSE), LAMBDA new :
        With({i \in 1..Len(stmts) : directiveWeights(tokens[1]) <= getWeight(stmts[i])},
             LAMBDA at :
            IF at = {} THEN [stmts |-> Append(stmts, new), id |-> new.id]
            ELSE With(CHOOSE i \in at : \A j \in at : i <= j, LAMBDA i :
                     [stmts |-> SubSeq(stmts, 1, i - 1) \o <<new>> \o SubSeq(stmts, i, Len(stmts)),
                      id |-> new.id])))

EditResult(f, err) == [file |-> f, err |-> err]

\* AddGopStmt adding a gop statement whether or not the File has one.
AddGopStmtAlwaysAdds(f, version) ==
    IF ~GoVersionRE(version) THEN EditResult(f, "invalid language version string")
    ELSE With(addLine(f.Syntax.Stmt, <<tGop, version>>), LAMBDA a :
             EditResult([f EXCEPT !.Syntax = [nil |-> FALSE, Stmt |-> a.stmts],
                                  !.Gop = [nil |-> FALSE, Version |-> version, Syntax |-> a.id]],
                        "nil"))

AddGopStmtOf(f, version) ==
    IF ~GoVersionRE(version) THEN EditResult(f, "invalid language version string")
    ELSE IF f.Gop.nil
    THEN With(addLine(f.Syntax.Stmt, <<tGop, version>>), LAMBDA a :
             EditResult([f EXCEPT !.Syntax = [nil |-> FALSE, Stmt |-> a.stmts],
                                  !.Gop = [nil |-> FALSE, Version |-> version, Syntax |-> a.id]],
                        "nil"))
    ELSE EditResult([f EXCEPT !.Gop.Version = version,
                              !.Syntax.Stmt = updateLine(f.Syntax.Stmt, f.Gop.Syntax,
                                                         <<tGop, version>>)],
                    "nil")

\* AddNewImport: addLine dereferences f.Syntax, which new(File) leaves nil.
AddNewImportOf(f, path) ==
    IF f.Syntax.nil THEN EditResult(f, "panic")
    ELSE With(addLine(f.Syntax.Stmt, <<tImport, AutoQuote(path)>>), LAMBDA a :
             EditResult([f EXCEPT !.Syntax.Stmt = a.stmts,
                                  !.Import = Append(f.Import,
                                                    [ClassfileMod |-> path, Syntax |-> a.id])],
                        "nil"))

\* AddImport not looking at f.Import first.
AddImportUnchecked(f, path) == AddNewImportOf(f, path)

AddImportOf(f, path) ==
    IF \E i \in 1..Len(f.Import) : f.Import[i].ClassfileMod = path
    THEN EditResult(f, "nil")
    ELSE AddNewImportOf(f, path)

\* modfile.Format of the tree, as far as tokens go: a Line is its tokens with
\* blanks between, a LineBlock its verb, a parenthesis, its Lines behind a tab.
RECURSIVE JoinBlank(_)
JoinBlank(toks) ==
    IF toks = <<>> THEN <<>>
    ELSE IF Len(toks) = 1 THEN toks[1]
    ELSE toks[1] \o <<" ">> \o JoinBlank(Tail2(toks, 1))
RECURSIVE FormatLines(_)
FormatLines(lines) ==
    IF lines = <<>> THEN <<>>
    ELSE <<"\t">> \o JoinBlank(lines[1].Token) \o <<"\n">> \o FormatLines(Tail2(lines, 1))
RECURSIVE Format(_)
Format(stmts) ==
    IF stmts = <<>> THEN <<>>
    ELSE (IF stmts[1].kind = "Line" THEN JoinBlank(stmts[1].Token) \o <<"\n">>
          ELSE stmts[1].Token[1] \o <<" ", "(", "\n">> \o FormatLines(stmts[1].Line)
                 \o <<")", "\n">>)
         \o Format(Tail2(stmts, 1))

MaxLines == 2
MaxEdits == 2

modAB == <<"a", ".", "b">>
modCD == <<"c", ".", "d">>
\* The statements a manifest is made of here, by shape; Parse gives each Line
\* its place <<i, j>> for an id.
ShapePool == { sLine(<<tGop, v12>>),
               sBlock(tGop, << <<v12>> >>),
               sLine(<<tImport, modAB>>),
               sBlock(tImport, << <<modAB>>, <<modCD>> >>),
               sLine(<<tProject, eG, sG, pM>>),
               sLine(<<tClass, eS, sS>>),
               sLine(<<tFoo, pM>>),
               sBlock(tFoo, << <<pM>> >>) }
IsVerb(shape, verb) == shape.Token[1] = verb
\* What Parse or ParseLax accepts of them: one gop statement at most, a class
\* only below a project.
Parseable(shapes) ==
    /\ Cardinality({i \in 1..Len(shapes) : IsVerb(shapes[i], tGop)}) <= 1
    /\ \A i \in 1..Len(shapes) :
          IsVerb(shapes[i], tClass) => \E j \in 1..(i - 1) : IsVerb(shapes[j], tProject)
Placed(shapes) ==
    [i \in 1..Len(shapes) |->
        IF shapes[i].kind = "Line" THEN eLine(<<i, 0>>, shapes[i].Token, FALSE)
        ELSE eBlock(shapes[i].Token[1],
                    [j \in 1..Len(shapes[i].Line) |-> eLine(<<i, j>>, shapes[i].Line[j], TRUE)])]
\* The Lines of the verb, in the order parseToFile meets them, with the
\* argument each has.
RECURSIVE VerbLines(_, _, _)
VerbLines(stmts, verb, i) ==
    IF i > Len(stmts) THEN <<>>
    ELSE (IF stmts[i].Token[1] # verb THEN <<>>
          ELSE IF stmts[i].kind = "Line" THEN <<[id |-> stmts[i].id, arg |-> stmts[i].Token[2]]>>
          ELSE [j \in 1..Len(stmts[i].Line) |->
                   [id |-> stmts[i].Line[j].id, arg |-> stmts[i].Line[j].Token[1]]])
         \o VerbLines(stmts, verb, i + 1)
\* The File parseToFile makes of a manifest: Gop and Import point into the tree.
ParsedFile(stmts) ==
    [Gop |-> IF VerbLines(stmts, tGop, 1) = <<>> THEN NilGop
             ELSE [nil |-> FALSE, Version |-> VerbLines(stmts, tGop, 1)[1].arg,
                   Syntax |-> VerbLines(stmts, tGop, 1)[1].id],
     Import |-> [k \in 1..Len(VerbLines(stmts, tImport, 1)) |->
                    [ClassfileMod |-> VerbLines(stmts, tImport, 1)[k].arg,
                     Syntax |-> VerbLines(stmts, tImport, 1)[k].id]],
     Syntax |-> [nil |-> FALSE, Stmt |-> stmts]]
Files ==
    {EmptyFile}
    \cup {ParsedFile(Placed(shapes)) :
            shapes \in {sh \in SeqsUpTo(ShapePool, MaxLines) : Parseable(sh)}}
Versions == {v12, v15, v1x}
ModulePaths == {modAB, modCD, <<"e", " ", "f">>}

InitEdit ==
    /\ file \in Files
    /\ before = file
    /\ log = <<>>
    /\ pc = "edit"
    /\ ParseQuiet /\ DepIdle /\ PkgIdle /\ LookIdle /\ ClsIdle /\ RestIdle

\* An edit operation can be called: fewer than MaxEdits were, none panicked.
CanEdit ==
    /\ pc = "edit"
    /\ Len(log) < MaxEdits
    /\ \A i \in 1..Len(log) : log[i].err # "panic"

Edited(op, arg, r) ==
    /\ file' = r.file
    /\ before' = file
    /\ log' = Append(log, [op |-> op, arg |-> arg, err |-> r.err,
                           grew |-> Len(r.file.Syntax.Stmt) > Len(file.Syntax.Stmt)])
    /\ UNCHANGED <<parseVars, depVars, pkgVars, lookVars, clsVars, restVars>>

AddGopStmt ==
    /\ CanEdit
    /\ \E version \in Versions : \E r \in {AddGopStmtOf(file, version)} :
          Edited("AddGopStmt", version, r)

AddImport ==
    /\ CanEdit
    /\ \E path \in ModulePaths : \E r \in {AddImportOf(file, path)} :
          Edited("AddImport", path, r)

AddNewImport ==
    /\ CanEdit
    /\ \E path \in ModulePaths : \E r \in {AddNewImportOf(file, path)} :
          Edited("AddNewImport", path, r)

NextEdit == AddGopStmt \/ AddImport \/ AddNewImport

SpecEdit == InitEdit /\ [][NextEdit]_vars

(* C17 *)

Last == log[Len(log)]
Did(op) == log # <<>> /\ Last.op = op
OldStmt == before.Syntax.Stmt
NewStmt == file.Syntax.Stmt
\* The last two calls were AddGopStmt of one and the same valid version.
SameVersionTwice ==
    /\ Len(log) >= 2 /\ Did("AddGopStmt")
    /\ log[Len(log) - 1].op = "AddGopStmt" /\ log[Len(log) - 1].arg = Last.arg
    /\ GoVersionRE(Last.arg)
\* The Line of the id reads the version, with the verb before it unless it is
\* inside a block; every other Line is as it was.
OnlyVersionLine(id, version) ==
    /\ Len(NewStmt) = Len(OldStmt)
    /\ \A l \in AllLines(NewStmt) :
          IF l.id = id
          THEN l.Token = (IF l.InBlock THEN <<version>> ELSE <<tGop, version>>)
          ELSE l \in AllLines(OldStmt)
    /\ \A i \in 1..Len(NewStmt) :
          /\ NewStmt[i].kind = OldStmt[i].kind
          /\ NewStmt[i].id = OldStmt[i].id
          /\ NewStmt[i].Token[1] = OldStmt[i].Token[1]
          /\ Len(NewStmt[i].Line) = Len(OldStmt[i].Line)
          /\ \A j \in 1..Len(NewStmt[i].Line) : NewStmt[i].Line[j].id = OldStmt[i].Line[j].id

\* C17: AddGopStmt called twice with one valid version leaves the File, its
\* statement tree and its formatted text as the first call left them; when a
\* version statement is there, a call with a valid version rewrites that
\* statement where it stands and the number of statements stays; a call with
\* an invalid version returns an error and leaves the File as it was.
C17_AddGopStmtIdempotent ==
    /\ SameVersionTwice =>
          file = before /\ Format(NewStmt) = Format(OldStmt) /\ Last.err = "nil"
    /\ (Did("AddGopStmt") /\ GoVersionRE(Last.arg) /\ ~before.Gop.nil) =>
          /\ Last.err = "nil"
          /\ file.Gop = [before.Gop EXCEPT !.Version = Last.arg]
          /\ file.Import = before.Import
          /\ OnlyVersionLine(before.Gop.Syntax, Last.arg)
    /\ (Did("AddGopStmt") /\ ~GoVersionRE(Last.arg)) =>
          Last.err # "nil" /\ file = before

\* The same version added twice to a manifest that had no version statement
\* but others: the first call put it in, the second found it.
C17_Witness ==
    /\ SameVersionTwice /\ log[Len(log) - 1].grew /\ ~Last.grew
    /\ Len(NewStmt) >= 2 /\ file = before /\ file.Gop.Version = v15

(* C18 *)

Registered(f, path) == \E i \in 1..Len(f.Import) : f.Import[i].ClassfileMod = path
\* The statements without the one at place p.
Without(stmts, p) == SubSeq(stmts, 1, p - 1) \o SubSeq(stmts, p + 1, Len(stmts))

\* C18: AddImport of a module path that is a registered classfile import adds
\* no statement and leaves the Import list as it is; of any other path, on a
\* File that has a statement tree (a parsed File), it adds one Import record
\* and one import statement; so no module path is added twice by AddImport.
C18_AddImportOnce ==
    /\ (Did("AddImport") /\ Registered(before, Last.arg)) =>
          file = before /\ Last.err = "nil"
    /\ (Did("AddImport") /\ ~Registered(before, Last.arg) /\ ~before.Syntax.nil) =>
          /\ Last.err = "nil"
          /\ Len(file.Import) = Len(before.Import) + 1
          /\ SubSeq(file.Import, 1, Len(before.Import)) = before.Import
          /\ file.Import[Len(file.Import)].ClassfileMod = Last.arg
          /\ file.Gop = before.Gop
          /\ \E p \in 1..Len(NewStmt) :
                /\ Without(NewStmt, p) = OldStmt
                /\ NewStmt[p].kind = "Line"
                /\ NewStmt[p].Token = <<tImport, AutoQuote(Last.arg)>>
                /\ NewStmt[p].id = file.Import[Len(file.Import)].Syntax
    /\ \A i, j \in 1..Len(log) :
          (i < j /\ log[i].op = "AddImport" /\ log[j].op = "AddImport"
             /\ log[i].grew /\ log[j].grew) => log[i].arg # log[j].arg

\* AddImport of one path twice on a parsed File that did not have it: the
\* first call added the statement, the second did nothing.
C18_Witness ==
    /\ Len(log) = 2 /\ log[1].op = "AddImport" /\ Did("AddImport")
    /\ log[1].arg = Last.arg /\ log[1].grew /\ ~Last.grew
    /\ file = before /\ Len(file.Import) = 2

(* C19 *)

\* The last call put a new statement into the tree, at place NewPlace.
Inserted == log # <<>> /\ Last.grew /\ Len(OldStmt) > 0
NewPlace == CHOOSE p \in 1..Len(NewStmt) : Without(NewStmt, p) = OldStmt
NewWeight == directiveWeights(NewStmt[NewPlace].Token[1])

\* C19: a statement that is added stands after every statement there was whose
\* weight is equal to or lower than its own, and before the first there was
\* of higher weight (a new import after the imports that were there).
C19_AfterEqualWeight ==
    Inserted =>
        \A i \in 1..Len(NewStmt) :
            i # NewPlace =>
                IF getWeight(NewStmt[i]) <= NewWeight THEN i < NewPlace ELSE NewPlace < i

\* Where addLine does put it: before the first statement there was whose
\* weight is equal to or higher than its own, equal ones included, and at the
\* end when there is none.
C19_BeforeFirstNotLower ==
    Inserted =>
        /\ \A i \in 1..(NewPlace - 1) : getWeight(NewStmt[i]) < NewWeight
        /\ NewPlace < Len(NewStmt) => getWeight(NewStmt[NewPlace + 1]) >= NewWeight

\* A new import put before the import that was there.
C19_NewImportFirst ==
    /\ Inserted /\ Did("AddImport")
    /\ NewPlace < Len(NewStmt) /\ NewStmt[NewPlace + 1].Token[1] = tImport

(* C20 *)

\* C20: no edit operation reorders or alters the statements there were: after
\* the call they stand in the order they stood in with the tokens they had,
\* but for one statement put in, or for the tokens of the version statement
\* rewritten where it stands.
C20_OthersUntouched ==
    log # <<>> =>
        \/ NewStmt = OldStmt
        \/ /\ Last.grew
           /\ \E p \in 1..Len(NewStmt) : Without(NewStmt, p) = OldStmt /\ NewStmt[p].kind = "Line"
        \/ /\ Did("AddGopStmt") /\ ~before.Gop.nil
           /\ OnlyVersionLine(before.Gop.Syntax, Last.arg)

\* A version statement put between two statements that were there.
C20_Witness ==
    /\ Did("AddGopStmt") /\ Last.grew /\ Len(NewStmt) = 3
    /\ NewStmt[2].id[1] = 0 /\ NewStmt[1] = OldStmt[1] /\ NewStmt[3] = OldStmt[2]

-----------------------------------------------------------------------------
(* The token parsers on their own: parseSymbol and parseExt *)

MaxTokLen == 3

\* Tokens: a body over a small alphabet, as it is, behind "main", or in
\* double quotes.
TokChars == {"*", ".", "_", "A", "g", "-", SQ}
TokBodies == SeqsUpTo(TokChars, MaxTokLen)
Tokens == TokBodies \cup {tMain \o b : b \in TokBodies} \cup {Quote(b) : b \in TokBodies}

InitToken ==
    /\ token \in Tokens
    /\ tokOut = NoOut
    /\ pc = "token"
    /\ ParseQuiet /\ DepIdle /\ PkgIdle
    /\ LookIdle /\ ClsIdle /\ EditIdle /\ ReqIdle /\ LoadIdle

\* t, err = parseSymbol(&token)
ParseSymbol ==
    /\ pc = "token"
    /\ \E r \in {parseSymbol(token)} :
          /\ tokOut' = [op |-> "parseSymbol", s |-> token, isProj |-> FALSE, r |-> r]
          /\ token' = r.s
    /\ pc' = "parseSymbol"
    /\ UNCHANGED <<parseData, depVars, pkgVars, lookVars, clsVars, editVars, reqVars, loadVars>>

\* ext, fullExt, err = parseExt(&token, isProj)
ParseExt ==
    /\ pc = "token"
    /\ \E isProj \in BOOLEAN :
       \E r \in {parseExt(token, isProj)} :
          /\ tokOut' = [op |-> "parseExt", s |-> token, isProj |-> isProj, r |-> r]
          /\ token' = r.s
    /\ pc' = "parseExt"
    /\ UNCHANGED <<parseData, depVars, pkgVars, lookVars, clsVars, editVars, reqVars, loadVars>>

NextToken == ParseSymbol \/ ParseExt

SpecToken == InitToken /\ [][NextToken]_vars

-----------------------------------------------------------------------------
(* C21 *)

\* The value of the token handed to the last call, read by the string-literal
\* rules: ok is FALSE when the token is not well formed.
TokValue == With(parseString(tokOut.s), LAMBDA v : [ok |-> v.err = "", t |-> v.t])

\* The exported-identifier pattern matched against the whole of t: an optional
\* star, an upper-case letter, then word characters to the end.
IsExportedFrom(t, i) ==
    /\ i <= Len(t)
    /\ t[i] \in Upper
    /\ \A j \in (i + 1)..Len(t) : t[j] \in WordChar
IsExported(t) ==
    \/ IsExportedFrom(t, 1)
    \/ t # <<>> /\ t[1] = "*" /\ IsExportedFrom(t, 2)

SymbolCall == pc = "parseSymbol" /\ tokOut.op = "parseSymbol"
SymbolAccepted == tokOut.r.err = ""
SymbolRejected == tokOut.r.err # "" /\ tokOut.r.kind = "symbol"

\* C21: parseSymbol accepts a token if and only if the whole unquoted token is
\* an exported identifier (an optional leading star, an upper-case letter, then
\* only word characters); every other token is rejected with an
\* InvalidSymbolError.
C21_WholeToken ==
    SymbolCall =>
        /\ SymbolAccepted <=> (TokValue.ok /\ IsExported(TokValue.t))
        /\ ~SymbolAccepted => SymbolRejected

\* What parseSymbol does keep: a well-formed token is accepted exactly when an
\* upper-case letter occurs somewhere in it, and what is not accepted is
\* rejected with an InvalidSymbolError.
C21_SomeUpper ==
    SymbolCall =>
        /\ SymbolAccepted <=> (TokValue.ok /\ ContainsAny(TokValue.t, Upper))
        /\ SymbolAccepted => tokOut.r.t = TokValue.t
        /\ ~SymbolAccepted => SymbolRejected

\* A token with an upper-case letter in the middle and a character outside
\* the word class has been accepted.
C21_MiddleUpper ==
    /\ SymbolCall /\ SymbolAccepted
    /\ tokOut.s = <<"g", "A", "-">>

-----------------------------------------------------------------------------
(* C22 *)

ExtCall == pc = "parseExt" /\ tokOut.op = "parseExt"
ExtAccepted == tokOut.r.err = ""

\* t without its leading star, or else without its leading "main".
Stripped(t) ==
    IF HasPrefix(t, <<"*">>) THEN Tail2(t, 1)
    ELSE IF HasPrefix(t, tMain) THEN Tail2(t, 4)
    ELSE t

IsBareExt(e) == e # <<>> /\ e[1] \in {".", "_"}

\* What every accepted token gives, the form of the canonical ext apart.
ExtReturned ==
    /\ TokValue.ok
    /\ tokOut.r.ext = Stripped(TokValue.t)
    /\ tokOut.r.fullExt = TokValue.t
    /\ HasPrefix(TokValue.t, tMain) => tokOut.isProj

\* C22: for every token parseExt accepts, in project or work context, the
\* canonical ext is the token without its leading star or leading "main" and
\* begins with "." or "_", the full ext is the unquoted token itself, and a
\* token with the "main" prefix is accepted only in project context.
C22_BareForm ==
    (ExtCall /\ ExtAccepted) => (ExtReturned /\ IsBareExt(tokOut.r.ext))

\* What parseExt does keep: the canonical ext has the bare form unless the
\* token is a star followed by something that is not an ext.
C22_BareUnlessStar ==
    (ExtCall /\ ExtAccepted) =>
        /\ ExtReturned
        /\ ~HasPrefix(TokValue.t, <<"*">>) => IsBareExt(tokOut.r.ext)

\* A star followed by a name has been accepted, in work context.
C22_StarName ==
    /\ ExtCall /\ ExtAccepted /\ ~tokOut.isProj
    /\ tokOut.s = <<"*", "g">>
    /\ tokOut.r.ext = <<"g">>

\* A "main" token has been accepted in project context and stripped.
C22_MainStripped ==
    /\ ExtCall /\ ExtAccepted /\ tokOut.isProj
    /\ tokOut.s = tMain \o <<".", "g">>
    /\ tokOut.r.ext = <<".", "g">>

-----------------------------------------------------------------------------
(* modload.Module.AddRequire, AddReplace; xgomod.Module.DepMods, LookupDepMod *)

\* A require entry: r.Mod, and r.Syntax with the end-of-line comments of its line.
Req(path, v, suffix) ==
    [Mod |-> Ver(path, v), Syntax |-> [nil |-> FALSE, Suffix |-> suffix]]
\* Require{}: what an entry removed from the list is overwritten with.
ZeroReq == [Mod |-> Ver(<<>>, <<>>), Syntax |-> [nil |-> TRUE, Suffix |-> <<>>]]
ZeroRepl == Repl(Ver(<<>>, <<>>), Ver(<<>>, <<>>))

xgoClass == <<"/", "/", "x", "g", "o", ":", "c", "l", "a", "s", "s">>

RECURSIVE TrimLeft(_, _)
TrimLeft(s, cs) == IF s # <<>> /\ s[1] \in cs THEN TrimLeft(Tail2(s, 1), cs) ELSE s

isClass(r) ==
    /\ ~r.Syntax.nil
    /\ \E i \in 1..Len(r.Syntax.Suffix) :
          With(TrimLeft(Tail2(r.Syntax.Suffix[i], 2), {" ", "\t"}), LAMBDA text :
              HasPrefix(text, <<"x", "g", "o", ":", "c", "l", "a", "s", "s">>) \/ HasPrefix(text, <<"g", "o", "p", ":", "c", "l", "a", "s", "s">>))

\* addClass on the entry at position i: the comment on its line, the path in
\* opt.ClassMods; nothing when the entry has no line.
addClass(m, i) ==
    IF m.Require[i].Syntax.nil THEN m
    ELSE [m EXCEPT !.Require[i].Syntax.Suffix = Append(@, xgoClass),
                   !.ClassMods = Append(@, m.Require[i].Mod.Path)]

\* The positions of the list whose entry satisfies Hit, lowest first or none.
FirstAt(n, Hit(_)) ==
    IF \E i \in 1..n : Hit(i)
    THEN CHOOSE i \in 1..n : Hit(i) /\ \A j \in 1..(i - 1) : ~Hit(j)
    ELSE 0

\* gomodfile.File.AddRequire: the first line for path gets the version and
\* keeps its comments, every other line for path is removed, and with no line
\* for path a new one is added at the end.
fileAddRequire(req, path, v) ==
    With(FirstAt(Len(req), LAMBDA i : req[i].Mod.Path = path), LAMBDA k :
        IF k = 0 THEN Append(req, Req(path, v, <<>>))
        ELSE [i \in 1..Len(req) |->
                 IF i = k THEN [req[i] EXCEPT !.Mod.Version = v]
                 ELSE IF req[i].Mod.Path = path THEN ZeroReq
                 ELSE req[i]])

\* AddRequire marking the line whether or not it carries the marker.
AddRequireAlwaysMarks(m, path, v, hasProj) ==
    With([m EXCEPT !.Require = fileAddRequire(m.Require, path, v)], LAMBDA m1 :
        With(FirstAt(Len(m1.Require), LAMBDA i : m1.Require[i].Mod.Path = path), LAMBDA k :
            IF hasProj /\ k # 0 THEN addClass(m1, k) ELSE m1))

\* Module.AddRequire
AddRequireOf(m, path, v, hasProj) ==
    With([m EXCEPT !.Require = fileAddRequire(m.Require, path, v)], LAMBDA m1 :
        With(FirstAt(Len(m1.Require), LAMBDA i : m1.Require[i].Mod.Path = path), LAMBDA k :
            IF hasProj /\ k # 0 /\ ~isClass(m1.Require[k]) THEN addClass(m1, k) ELSE m1))

\* gomodfile.File.AddReplace (promoted to Module): the first entry for the old
\* path that the old version matches gets the new target, every later one
\* that matches is removed, and with no match an entry is appended.
\* replaceMatch: an entry for the old path, under the old version when one is given.
replaceMatch(rep, old, i) ==
    /\ rep[i].Old.Path = old.Path
    /\ (old.Version = <<>> \/ rep[i].Old.Version = old.Version)

fileAddReplace(rep, old, new) ==
    With(FirstAt(Len(rep), LAMBDA i : replaceMatch(rep, old, i)), LAMBDA k :
        IF k = 0 THEN Append(rep, Repl(old, new))
        ELSE [i \in 1..Len(rep) |->
                 IF i = k THEN [rep[i] EXCEPT !.New = new]
                 ELSE IF replaceMatch(rep, old, i) THEN ZeroRepl
                 ELSE rep[i]])

\* modload.Module.DepMods of the created module, the calling process being in wd.
moduleDepMods(m, wd) ==
    DepModsOf([Name |-> m.Name,
               Require |-> [i \in 1..Len(m.Require) |-> m.Require[i].Mod],
               Replace |-> m.Replace], wd)

\* xgomod.Module.DepMods: the map is computed when depmods_ is nil and kept.
xgomodDepMods(c, m, wd) ==
    IF c.nil THEN [nil |-> FALSE, m |-> moduleDepMods(m, wd)] ELSE c

\* deps[modPath], with Go's zero value and ok = false for a missing key.
LookupDepModOf(deps, p) ==
    IF p \in DOMAIN deps THEN [modVer |-> deps[p], ok |-> TRUE]
    ELSE [modVer |-> Ver(<<>>, <<>>), ok |-> FALSE]

MaxCalls == 3

\* Create("/f/b", ...): no require, no replace, no classfile module.
CreatedName == <<"/", "f", "/", "b", "/", "g", "o", ".", "m", "o", "d">>
CreatedDir == <<"/", "w", "/", "d">>
Created == [Name |-> CreatedName, Require |-> <<>>, Replace |-> <<>>, ClassMods |-> <<>>]

ReqPaths == {mA, mB}
ReqVersions == {vOne, vTwo}
ReplTargets == {Ver(mC, vTwo), Ver(<<".", ".", "/">>, <<>>)}
ExternImports == {mA \o <<"/", "z">>, mB}

InitRequire ==
    /\ xmod = Created
    /\ depCache = NilMap
    /\ reqLog = <<>>
    /\ pc = "created"
    /\ ParseQuiet /\ DepIdle /\ PkgIdle
    /\ LookIdle /\ ClsIdle /\ EditIdle /\ TokIdle /\ LoadIdle

Called(e) ==
    /\ pc = "created"
    /\ Len(reqLog) < MaxCalls
    /\ reqLog' = Append(reqLog, e)
    /\ UNCHANGED <<parseVars, depVars, pkgVars, lookVars, clsVars, editVars, tokVars, loadVars>>

\* mod.AddRequire(path, vers, hasProj)
AddRequire ==
    \E path \in ReqPaths, v \in ReqVersions, hasProj \in BOOLEAN :
        /\ Called([op |-> "AddRequire", path |-> path, hasProj |-> hasProj])
        /\ xmod' = AddRequireOf(xmod, path, v, hasProj)
        /\ UNCHANGED depCache

\* mod.AddReplace(oldPath, oldVers, newPath, newVers)
AddReplace ==
    \E old \in ReqPaths, oldVers \in {<<>>, vOne}, new \in ReplTargets :
        /\ Called([op |-> "AddReplace", path |-> old, hasProj |-> FALSE])
        /\ xmod' = [xmod EXCEPT !.Replace = fileAddReplace(@, Ver(old, oldVers), new)]
        /\ UNCHANGED depCache

\* p.DepMods() on the xgomod.Module
ModuleDepMods ==
    /\ Called([op |-> "DepMods", path |-> <<>>, hasProj |-> FALSE])
    /\ depCache' = xgomodDepMods(depCache, xmod, CreatedDir)
    /\ UNCHANGED xmod

\* modVer, ok = p.LookupDepMod(modPath)
LookupDepMod ==
    \E p \in ReqPaths :
    \E c \in {xgomodDepMods(depCache, xmod, CreatedDir)} :
        /\ Called([op |-> "LookupDepMod", path |-> p, hasProj |-> FALSE,
                   r |-> LookupDepModOf(c.m, p)])
        /\ depCache' = c
        /\ UNCHANGED xmod

\* pkg, err = p.Lookup(pkgPath) with the path of an external package
Lookup ==
    \E imp \in ExternImports :
    \E c \in {xgomodDepMods(depCache, xmod, CreatedDir)} :
    \E r \in lookupExternPkgResults(imp, c.m) :
        /\ Called([op |-> "Lookup", path |-> imp, hasProj |-> FALSE, r |-> r])
        /\ depCache' = c
        /\ UNCHANGED xmod

NextRequire == AddRequire \/ AddReplace \/ ModuleDepMods \/ LookupDepMod \/ Lookup

SpecRequire == InitRequire /\ [][NextRequire]_vars

-----------------------------------------------------------------------------
(* C23 *)

Occurrences(s, x) == Cardinality({i \in 1..Len(s) : s[i] = x})
LinesFor(p) == {i \in 1..Len(xmod.Require) : xmod.Require[i].Mod.Path = p}

\* The class marker comments on the require line at position i.
Markers(i) ==
    Cardinality({j \in 1..Len(xmod.Require[i].Syntax.Suffix) :
                    xmod.Require[i].Syntax.Suffix[j] = xgoClass})

AddedWithProj(p) ==
    \E k \in 1..Len(reqLog) :
        reqLog[k].op = "AddRequire" /\ reqLog[k].path = p /\ reqLog[k].hasProj

\* C23: after any sequence of AddRequire calls on a created module, a path
\* that was added with hasProj = true occurs exactly once in Opt.ClassMods and
\* its require line carries exactly one class marker comment, however often the
\* call is repeated; a path only ever added with hasProj = false does not occur
\* in ClassMods.
C23_OnceInClassMods ==
    \A p \in ReqPaths :
        /\ AddedWithProj(p) =>
              /\ Occurrences(xmod.ClassMods, p) = 1
              /\ Cardinality(LinesFor(p)) = 1
              /\ \A i \in LinesFor(p) : Markers(i) = 1
        /\ ~AddedWithProj(p) =>
              /\ Occurrences(xmod.ClassMods, p) = 0
              /\ \A i \in LinesFor(p) : Markers(i) = 0

\* The same path has been added with hasProj = true twice, after having been
\* added without, and it is required under the version of the last call.
C23_Witness ==
    /\ Len(reqLog) = 3
    /\ \A k \in 1..3 : reqLog[k].op = "AddRequire" /\ reqLog[k].path = mA
    /\ ~reqLog[1].hasProj /\ reqLog[2].hasProj /\ reqLog[3].hasProj
    /\ xmod.ClassMods = <<mA>>
    /\ xmod.Require = <<Req(mA, vTwo, <<xgoClass>>)>>

-----------------------------------------------------------------------------
(* C29 *)

IsRead(e) == e.op \in {"DepMods", "LookupDepMod", "Lookup"}
IsAdd(e) == e.op \in {"AddRequire", "AddReplace"}

LookedUp == reqLog # <<>> /\ reqLog[Len(reqLog)].op = "LookupDepMod"

\* What the lists give now, the version map computed afresh.
Recomputed(p) == LookupDepModOf(moduleDepMods(xmod, CreatedDir), p)

\* An Add call was made after a call that reads the version map.
AddedAfterRead ==
    \E i, j \in 1..Len(reqLog) : i < j /\ IsRead(reqLog[i]) /\ IsAdd(reqLog[j])

\* C29: after any interleaving of AddRequire and AddReplace calls with
\* LookupDepMod, DepMods and Lookup calls, LookupDepMod(path) returns the entry
\* that the version map recomputed from the current require and replace lists
\* gives.
C29_CurrentLists ==
    LookedUp => reqLog[Len(reqLog)].r = Recomputed(reqLog[Len(reqLog)].path)

\* What the Module does keep: the lookups answer from the lists as they were
\* at the first call that read the version map, so they agree with the current
\* lists as long as nothing was added after that call.
C29_ListsAtFirstRead ==
    (LookedUp /\ ~AddedAfterRead) =>
        reqLog[Len(reqLog)].r = Recomputed(reqLog[Len(reqLog)].path)

\* A path required after DepMods was called is looked up and not found.
C29_Stale ==
    /\ Len(reqLog) = 3
    /\ reqLog[1].op = "DepMods"
    /\ reqLog[2].op = "AddRequire" /\ reqLog[2].path = mA
    /\ reqLog[3].op = "LookupDepMod" /\ reqLog[3].path = mA
    /\ ~reqLog[3].r.ok
    /\ Recomputed(mA).ok

-----------------------------------------------------------------------------
(* modload.LoadFromEx *)

HasSuffix(s, x) == Len(s) >= Len(x) /\ SubSeq(s, Len(s) - Len(x) + 1, Len(s)) = x

\* parseToFile's loop over fs.Stmt run to its end.
RECURSIVE parseLoop(_, _, _, _, _)
parseLoop(f, es, stmts, i, isStrict) ==
    IF ~loopContinues(i, stmts, es) THEN [f |-> f, errs |-> es]
    ELSE With(parseStmt(f, es, stmts[i], i, isStrict), LAMBDA r :
             parseLoop(r.f, r.errs, [stmts EXCEPT ![i] = r.stmt], i + 1, isStrict))

\* File contents the tokenizer (modfile.ParseLax of golang.org/x/mod) rejects.
Garbled == [kind |-> "garbled", Stmt |-> <<>>]
\* readFile failing on the file.
Unreadable == [kind |-> "unreadable", Stmt |-> <<>>]
\* A file holding the statements stmts.
Text(stmts) == [kind |-> "text", Stmt |-> stmts]

\* modfile.ParseLax(file, data, fix): the File, named after the file it was
\* read from, or the error.
ParseLaxOf(name, content) ==
    IF content = Garbled THEN [err |-> "syntax", f |-> NewFile, Name |-> <<>>]
    ELSE With(parseLoop(NewFile, <<>>, content.Stmt, 1, FALSE), LAMBDA r :
             IF Len(r.errs) > 0 THEN [err |-> "errs", f |-> NewFile, Name |-> <<>>]
             ELSE [err |-> "nil", f |-> r.f, Name |-> name])

defaultXgoVer == v15

\* modfile.New(goxmod, xgoVer)
New(goxmod, xgoVer) ==
    [err |-> "nil",
     f |-> [XGo |-> [nil |-> FALSE, Version |-> xgoVer, Syntax |-> <<1, 0>>], Projects |-> <<>>],
     Name |-> goxmod]
newGoxMod(goxmod, xgoVer) == New(goxmod, xgoVer)

goxmodSuffix == <<"g", "o", "x", ".", "m", "o", "d">>
gopmodName(goxmod) ==
    SubSeq(goxmod, 1, Len(goxmod) - Len(goxmodSuffix)) \o <<"g", "o", "p", ".", "m", "o", "d">>

readFile(d, name) ==
    IF name \in DOMAIN d.files /\ d.files[name] # Unreadable
    THEN [err |-> "nil", data |-> d.files[name]]
    ELSE [err |-> "ErrNotExist", data |-> <<>>]

\* importClassfileFromGoMod: the paths of the requires marked as classfile modules.
RECURSIVE importClassfileFromGoMod(_, _)
importClassfileFromGoMod(req, i) ==
    IF i > Len(req) THEN <<>>
    ELSE (IF isClass(req[i]) THEN <<req[i].Mod.Path>> ELSE <<>>)
         \o importClassfileFromGoMod(req, i + 1)

LoadFailed(e, reads) ==
    [op |-> "LoadFromEx", err |-> e, reads |-> reads, Path |-> <<>>,
     Opt |-> [XGo |-> NilXGo, Projects |-> <<>>, ClassMods |-> <<>>, Name |-> <<>>]]

\* The secondary manifest, read and parsed: the error, the File (nil when
\* none could be read), the files asked for, and goxmod as it ends up.
loadOpt(d, goxmod) ==
    IF goxmod = <<>> THEN [err |-> "nil", nil |-> TRUE, name |-> goxmod, reads |-> <<>>]
    ELSE With(readFile(d, goxmod), LAMBDA r1 :
        With(IF r1.err # "nil" /\ HasSuffix(goxmod, goxmodSuffix)
             THEN [name |-> gopmodName(goxmod), r |-> readFile(d, gopmodName(goxmod)),
                   reads |-> <<goxmod, gopmodName(goxmod)>>]
             ELSE [name |-> goxmod, r |-> r1, reads |-> <<goxmod>>], LAMBDA s :
            IF s.r.err # "nil"
            THEN [err |-> "nil", nil |-> TRUE, name |-> s.name, reads |-> s.reads]
            ELSE With(ParseLaxOf(s.name, s.r.data), LAMBDA q :
                     [err |-> q.err, nil |-> FALSE, name |-> s.name, reads |-> s.reads,
                      f |-> q.f, Name |-> q.Name])))

\* LoadFromEx failing when the secondary manifest cannot be read.
LoadFromExMustRead(gomodFile, goxmod, d) ==
    IF d.gomod.state # "ok" THEN LoadFailed(d.gomod.state, <<gomodFile>>)
    ELSE With(loadOpt(d, goxmod), LAMBDA o :
        IF o.err # "nil" \/ (o.nil /\ goxmod # <<>>)
        THEN LoadFailed("modfile.Parse", <<gomodFile>> \o o.reads)
        ELSE With(IF o.nil THEN newGoxMod(o.name, defaultXgoVer) ELSE o, LAMBDA t :
            [op |-> "LoadFromEx", err |-> "nil", reads |-> <<gomodFile>> \o o.reads,
             Path |-> IF d.gomod.Path = <<"s", "t", "d">> THEN <<>> ELSE d.gomod.Path,
             Opt |-> [XGo |-> t.f.XGo, Projects |-> t.f.Projects,
                      ClassMods |-> importClassfileFromGoMod(d.gomod.Require, 1),
                      Name |-> t.Name]]))

\* LoadFromEx(gomod, goxmod, readFile). The go.mod is taken as gomodfile.Parse
\* reads it: unreadable, rejected, without a module declaration, or a File
\* with its module path and requires.
LoadFromExOf(gomodFile, goxmod, d) ==
    IF d.gomod.state # "ok" THEN LoadFailed(d.gomod.state, <<gomodFile>>)
    ELSE With(loadOpt(d, goxmod), LAMBDA o :
        IF o.err # "nil" THEN LoadFailed("modfile.Parse", <<gomodFile>> \o o.reads)
        ELSE With(IF o.nil THEN newGoxMod(o.name, defaultXgoVer) ELSE o, LAMBDA t :
            [op |-> "LoadFromEx", err |-> "nil", reads |-> <<gomodFile>> \o o.reads,
             Path |-> IF d.gomod.Path = <<"s", "t", "d">> THEN <<>> ELSE d.gomod.Path,
             Opt |-> [XGo |-> t.f.XGo, Projects |-> t.f.Projects,
                      ClassMods |-> importClassfileFromGoMod(d.gomod.Require, 1),
                      Name |-> t.Name]]))

fooGoMod == <<"/", "f", "o", "o", "/", "g", "o", ".", "m", "o", "d">>
fooGoxMod == <<"/", "f", "o", "o", "/", "g", "o", "x", ".", "m", "o", "d">>
fooGopMod == <<"/", "f", "o", "o", "/", "g", "o", "p", ".", "m", "o", "d">>
fooOptMod == <<"/", "f", "o", "o", "/", "x", ".", "m", "o", "d">>

\* What a secondary manifest file holds: a project with a class, a version
\* with a statement of an unknown verb, a class without its project, text
\* that is no manifest; or the file cannot be read.
SecondaryPool ==
    { Text(<< sLine(<<tProject, eG, sG, pM>>), sLine(<<tClass, eS, sS>>) >>),
      Text(<< sLine(<<tXgo, v12>>), sLine(<<tFoo, pQM>>) >>),
      Text(<< sLine(<<tClass, eS, sS>>) >>),
      Garbled, Unreadable }

\* What gomodfile.Parse makes of the go.mod.
PrimaryPool ==
    { [state |-> "readFile", Path |-> <<>>, Require |-> <<>>],
      [state |-> "gomodfile.Parse", Path |-> <<>>, Require |-> <<>>],
      [state |-> "ErrNoModDecl", Path |-> <<>>, Require |-> <<>>] }
    \cup [state : {"ok"}, Path : {mA, <<"s", "t", "d">>},
          Require : {<<>>, <<Req(mB, vOne, <<xgoClass>>), Req(mC, vOne, <<>>)>>}]

InitLoad ==
    /\ disk \in [gomod : PrimaryPool,
                 files : [{fooGoxMod, fooGopMod, fooOptMod} -> SecondaryPool]]
    /\ loadArgs \in [gomod : {fooGoMod}, goxmod : {fooGoxMod, fooOptMod, <<>>}]
    /\ loaded = NoOut
    /\ pc = "LoadFromEx"
    /\ ParseQuiet /\ DepIdle /\ PkgIdle
    /\ LookIdle /\ ClsIdle /\ EditIdle /\ TokIdle /\ ReqIdle

LoadFromEx ==
    /\ pc = "LoadFromEx"
    /\ loaded' = LoadFromExOf(loadArgs.gomod, loadArgs.goxmod, disk)
    /\ pc' = "loadedEx"
    /\ UNCHANGED <<parseData, depVars, pkgVars, lookVars, clsVars, editVars, tokVars, reqVars,
                   disk, loadArgs>>

NextLoad == LoadFromEx

SpecLoad == InitLoad /\ [][NextLoad]_vars

-----------------------------------------------------------------------------
(* C24 *)

LoadedEx == pc = "loadedEx" /\ loaded.op = "LoadFromEx"
PrimaryOk == disk.gomod.state = "ok"
CanRead(name) == disk.files[name] # Unreadable

\* The secondary manifest file LoadFromEx ends up with: the one given, or
\* gop.mod beside it when the given gox.mod cannot be read; none when neither
\* can be read or none was asked for.
SecondaryRead ==
    IF loadArgs.goxmod = <<>> THEN <<>>
    ELSE IF CanRead(loadArgs.goxmod) THEN loadArgs.goxmod
    ELSE IF loadArgs.goxmod = fooGoxMod /\ CanRead(fooGopMod) THEN fooGopMod
    ELSE <<>>

IsDefaultManifest(o) ==
    /\ ~o.XGo.nil /\ o.XGo.Version = defaultXgoVer
    /\ o.Projects = <<>>

\* C24: a secondary manifest that cannot be read is no error. LoadFromEx
\* reads the gox.mod it is given, then gop.mod of the same directory when that
\* fails; when neither can be read it returns a module with the default
\* manifest (default xgo version, no Projects) and a nil error; a secondary
\* manifest that is read and fails to parse makes the load fail.
C24_OptionalManifest ==
    (LoadedEx /\ PrimaryOk) =>
        /\ loadArgs.goxmod = fooGoxMod =>
              loaded.reads = IF CanRead(fooGoxMod) THEN <<fooGoMod, fooGoxMod>>
                             ELSE <<fooGoMod, fooGoxMod, fooGopMod>>
        /\ SecondaryRead = <<>> =>
              loaded.err = "nil" /\ IsDefaultManifest(loaded.Opt)
        /\ SecondaryRead # <<>> =>
              (loaded.err = "nil"
                  <=> ParseLaxOf(SecondaryRead, disk.files[SecondaryRead]).err = "nil")

\* gox.mod and gop.mod were both asked for, neither could be read, and the
\* module came back with the default manifest.
C24_Witness ==
    /\ LoadedEx /\ PrimaryOk
    /\ loaded.reads = <<fooGoMod, fooGoxMod, fooGopMod>>
    /\ ~CanRead(fooGoxMod) /\ ~CanRead(fooGopMod)
    /\ loaded.err = "nil" /\ IsDefaultManifest(loaded.Opt)

\* gop.mod was read in place of gox.mod and did not parse: the load failed.
C24_FallbackFails ==
    /\ LoadedEx /\ PrimaryOk
    /\ SecondaryRead = fooGopMod
    /\ loaded.err # "nil"

-----------------------------------------------------------------------------
(* C25 *)

\* The calls of modload.Load and modfetch.Get, in the order they were made.
Attempts == SelectSeq(trace, LAMBDA e : e.call \in {"Load", "Get"})
IsLoad(i) == Attempts[i].call = "Load"
IsGet(i) == Attempts[i].call = "Get"
\* A load that follows a fetch is the retry; any other is a first load.
IsRetry(i) == IsLoad(i) /\ i > 1 /\ IsGet(i - 1)
IsFirstLoad(i) == IsLoad(i) /\ ~IsRetry(i)
IsLastAttempt(i) == i = Len(Attempts)
\* What importClassFrom returned for the load at i.
LoadOutcome(i) ==
    IF Attempts[i].err # "nil" THEN Attempts[i].err
    ELSE IF ProjectsOf(Attempts[i].arg) = <<>> THEN ErrNotClassFileMod
    ELSE "nil"

\* The modules of the first loads from the attempt at i on, in order.
RECURSIVE FirstLoadArgs(_)
FirstLoadArgs(i) ==
    IF i > Len(Attempts) THEN <<>>
    ELSE (IF IsFirstLoad(i) THEN <<Attempts[i].arg>> ELSE <<>>) \o FirstLoadArgs(i + 1)

\* C25: for each declared classfile module ImportClasses first loads the
\* manifest from the module cache; the fetch collaborator is called at most
\* once for the module and only when that first load fails with not-found;
\* after a successful fetch the load is retried once, with the version the
\* fetch returned; any other failure of the first load (ErrNotClassFileMod
\* included) and any failure of the fetch or of the retry is returned with no
\* further attempt.
C25_FetchOnceOnNotFound ==
    Imported =>
        /\ \A i \in 1..Len(Attempts) :
              /\ IsGet(i) =>
                    /\ i > 1 /\ IsFirstLoad(i - 1)
                    /\ Attempts[i - 1].mod = Attempts[i].mod
                    /\ LoadOutcome(i - 1) = ErrNotFound
                    /\ IF Attempts[i].err = "nil"
                       THEN /\ ~IsLastAttempt(i) /\ IsLoad(i + 1)
                            /\ Attempts[i + 1].mod = Attempts[i].got
                       ELSE IsLastAttempt(i) /\ clsErr = Attempts[i].err
              /\ IsFirstLoad(i) =>
                    /\ Attempts[i].mod = depmods[Attempts[i].arg]
                    /\ IF LoadOutcome(i) = ErrNotFound
                       THEN ~IsLastAttempt(i) /\ IsGet(i + 1)
                       ELSE (LoadOutcome(i) # "nil" =>
                               (IsLastAttempt(i) /\ clsErr = LoadOutcome(i)))
              /\ (IsRetry(i) /\ LoadOutcome(i) # "nil") =>
                    (IsLastAttempt(i) /\ clsErr = LoadOutcome(i))
        /\ \A m \in ClassModPool :
              Cardinality({i \in 1..Len(Attempts) : IsGet(i) /\ Attempts[i].arg = m}) <= 1
        /\ FirstLoadArgs(1) = SubSeq(opt.ClassMods, 1, Len(FirstLoadArgs(1)))
        /\ clsErr = "nil" => FirstLoadArgs(1) = opt.ClassMods

\* A module required without a version was not in the cache: it was fetched,
\* and the load was retried with the version the fetch returned.
C25_Witness ==
    /\ Succeeded
    /\ Len(Attempts) >= 3
    /\ IsFirstLoad(1) /\ Attempts[1].mod = Ver(modSpx, <<>>) /\ LoadOutcome(1) = ErrNotFound
    /\ IsGet(2) /\ Attempts[2].got = Ver(modSpx, vLatest)
    /\ IsRetry(3) /\ Attempts[3].mod = Ver(modSpx, vLatest)

\* A fetch reported as done left no directory: the retry failed with
\* not-found and no second fetch was made.
C25_RetryFails ==
    /\ Imported /\ clsErr = ErrNotFound
    /\ Len(Attempts) = 3 /\ IsGet(2) /\ Attempts[2].err = "nil"
    /\ IsRetry(3) /\ LoadOutcome(3) = ErrNotFound

-----------------------------------------------------------------------------
(* C26 *)

\* The dependency the lookup answered with is not in the module cache.
OwnerNotFetched ==
    /\ Looked /\ Qualifying # {}
    /\ lookPkg.err = "nil"
    /\ world[lookPkg.ModPath] # "cached"

Fetches == SelectSeq(trace, LAMBDA e : e.call = "Get")

\* C26: when Lookup is given an external import path whose owning module is
\* in the version map and not yet fetched into the module cache, it calls the
\* fetch collaborator for that module and retries the lookup once; it fails
\* with the missing-package error only if the package is still not found.
C26_FetchAndRetry ==
    (Looked /\ Qualifying # {} /\ \A p \in Qualifying : world[p] # "cached") =>
        /\ Len(Fetches) = 1
        /\ Fetches[1].arg \in Qualifying
        /\ lookPkg.err = "nil" => world[lookPkg.ModPath] = "cached"

\* What Lookup does: it answers from the version map alone, with the
\* directory the module would have in the cache, whether or not the directory
\* is there; it calls no fetch collaborator and leaves the cache as it is.
C26_NeverFetches ==
    Looked =>
        /\ Fetches = <<>>
        /\ Qualifying # {} =>
              /\ lookPkg.err = "nil"
              /\ lookPkg.ModDir = modcachePath(depmods[lookPkg.ModPath]).dir

\* A lookup answered with a directory of a module that is not in the cache.
C26_AnsweredUnfetched ==
    /\ OwnerNotFetched
    /\ Fetches = <<>>
    /\ lookPkg.Dir # <<>>

-----------------------------------------------------------------------------
(* C27 *)

Declared == {opt.ClassMods[i] : i \in 1..Len(opt.ClassMods)}
\* The classfile modules that a declared module declares and the module
\* itself does not.
SecondLevel == (UNION {{ClassModsOf(b)[i] : i \in 1..Len(ClassModsOf(b))} : b \in Declared})
                  \ Declared
ProjectSet(m) == {ProjectsOf(m)[i] : i \in 1..Len(ProjectsOf(m))}

\* C27: only one level of classfile modules is resolved. When the module
\* declares classfile module B and B's own manifest declares classfile module
\* C, building the registry registers B's Projects, loads nothing of C and
\* binds no extension to a Project of C.
C27_OneLevel ==
    Imported =>
        /\ \A c \in SecondLevel :
              /\ c \notin ArgsOf("Load") /\ c \notin ArgsOf("Get")
              /\ ArgsOf("importClass") \cap ProjectSet(c) = {}
              /\ \A ext \in DOMAIN projs : projs[ext] \notin ProjectSet(c)
        /\ Succeeded =>
              \A b \in Declared : ProjectSet(b) \subseteq ArgsOf("importClass")

\* The one declared module was imported; the module its manifest declares
\* has Projects, and none of it was loaded or registered.
C27_Witness ==
    /\ Succeeded
    /\ opt.ClassMods = <<modYap>>
    /\ SecondLevel = {modSpx} /\ ProjectSet(modSpx) # {}
    /\ ArgsOf("Load") = {modYap}
    /\ YapProject \in ArgsOf("importClass")
    /\ SpxV2 \notin ArgsOf("importClass")

-----------------------------------------------------------------------------
(* All or nothing: C28 *)

\* A class recorded in a project of the File under construction although a
\* project line between that project's line and the class's has an error.
Misattached ==
    \E k \in 1..Len(parsed.Projects) : \E w \in 1..Len(parsed.Projects[k].Works) :
        \E q \in LinesOf(tProject) :
            /\ PosLess(parsed.Projects[k].Syntax, q)
            /\ PosLess(q, parsed.Projects[k].Works[w].Syntax)
            /\ ErrsAt(q) # {}
            /\ \A j \in 1..Len(parsed.Projects) : parsed.Projects[j].Syntax # q

\* C28: parseToFile returns either the File with a nil error or a nil File with
\* the error list, the File exactly when no statement was reported; so a File
\* in which a class sits in the wrong project, its own project line having
\* failed, is never returned.
C28_AllOrNothing ==
    pc = "done" =>
        /\ \/ ret.file = "file" /\ ret.err = "nil"
           \/ ret.file = "nil" /\ ret.err = "errs"
        /\ ret.file = "file" <=> errs = <<>>
        /\ Misattached => ret.file = "nil"

\* A sound project, a project line that fails, a class after it: the class is
\* in the first project of the File built, a sound statement was applied after
\* the failure, and the caller gets no File.
C28_Witness ==
    /\ Rejected
    /\ Misattached
    /\ Len(errs) = 1
    /\ \E p \in AllPos(data) : PosLess(errs[1].pos, p) /\ ErrsAt(p) = {}

-----------------------------------------------------------------------------
(* The registry's keys: C30 *)

\* The extensions the imported Projects declare, and whether ClassKind has
\* answered for a file since the import.
ImportedExts == BoundExts(ImportOrder)
KindedAfterImport == Succeeded /\ classKind.op = "ClassKind" /\ classKind.ok
NoExt(fname) == ClassExt(fname) = <<>>

C30_NoExtension ==
    /\ Succeeded
    /\ classKind.op = "ClassKind"
    /\ NoExt(classKind.fname)
    /\ ~classKind.ok

====
